---- MODULE Spec2Model ----
(***************************************************************************)
(* Model of the segmentation, deduplication, merge and retrieval-fusion    *)
(* core of the Alberta Perspectives RAG backend (src/backend).             *)
(*                                                                         *)
(* Strings are sequences of one-character strings.  Scores are integers    *)
(* in hundredths (0.85 is 85); fused scores are in ten-thousandths.        *)
(***************************************************************************)
EXTENDS Integers, Sequences, FiniteSets, TLC

VARIABLES
    \* ---- DocumentProcessor.chunk_text ----
    text,                    \* the text argument
    chunk_size,              \* self.chunk_size
    chunk_overlap,           \* self.chunk_overlap
    cpc,                     \* position in chunk_text: "start", "loop", "flush", "done"
    sentences,               \* result of _split_into_sentences
    sidx,                    \* index of the next sentence of the for loop
    current_chunk,           \* the string being accumulated
    current_chunk_sentences, \* the sentences of the chunk being accumulated
    carried,                 \* how many leading sentences of the current chunk came from its predecessor
    chunks,                  \* the list of chunk_info records emitted so far
    \* ---- the documents table of the storage collaborator ----
    store,                   \* document id -> document row
    \* ---- DocumentDeduplicationService.check_for_duplicates ----
    file_content,            \* the candidate's bytes: [sha, head, tail, size]
    extracted_text,          \* the candidate's extracted text ("" when absent)
    dpc,                     \* position in check_for_duplicates
    filename_matches,        \* result of _check_filename_similarity
    content_matches,         \* result of _check_content_similarity
    semantic_matches,        \* result of _check_semantic_similarity
    semantic_hits,           \* history: what db_manager.similarity_search answered
    failed,                  \* the detection methods whose collaborator call failed in this run
    dresult,                 \* the dict check_for_duplicates returns
    \* ---- merge_duplicate_documents / merge_similar_documents ----
    primary_doc_id,          \* the primary document id of the request
    secondary_doc_ids,       \* the secondary document ids of the request
    mpc,                     \* position in the merge
    mi,                      \* index into secondary_doc_ids of the running loop
    secondary_docs,          \* the secondary documents the lookups resolved
    mresult,                 \* the merge's answer: success flag and HTTP status
    store0,                  \* the documents table when the merge was called
    \* ---- AdvancedSearchService._hybrid_search ----
    max_results,             \* the caller's requested result count
    fpc,                     \* position in _hybrid_search
    semantic_results,        \* answer of _semantic_search
    keyword_results,         \* answer of _keyword_search
    combined_results,        \* answer of _merge_search_results
    ranked_results,          \* what _hybrid_search returns
    semantic_limit,          \* the max_results argument _semantic_search was called with
    keyword_limit,           \* the max_results argument _keyword_search was called with
    \* ---- AdvancedSearchService._generate_facets / faceted_search ----
    fresults,                \* the filtered result list advanced_search generates facets for
    gpc,                     \* position: "idle", "base", "refine", "done"
    base_facets,             \* outcome of _generate_facets in advanced_search
    base_results,            \* base_results['results'] as faceted_search receives it
    selected_facets,         \* the facet selection of faceted_search
    filtered_results,        \* faceted_search's results after _filter_by_facet
    updated_facets,          \* outcome of _generate_facets in faceted_search
    \* ---- DocumentProcessor.process_document ----
    pages,                   \* extracted_data["pages"]: the cleaned text of every non-empty page
    page_idx,                \* index of the next page of the for loop
    ppc,                     \* position in process_document: "idle", "pages", "full", "done"
    all_chunks,              \* all_chunks
    \* ---- _create_content_fingerprint / _compare_content_fingerprints ----
    candidate,               \* the content bytes: [sha, head, tail, size]
    existing_fingerprint,    \* the stored content_fingerprint it is compared with
    kpc,                     \* position: "idle", "create", "compare", "done"
    content_fingerprint,     \* outcome of _create_content_fingerprint
    similarity,              \* outcome of _compare_content_fingerprints
    \* ---- _calculate_filename_similarity ----
    name1,                   \* the candidate's file name
    name2,                   \* a stored file name
    npc,                     \* position: "idle", "normalize", "compare", "done"
    norm1,                   \* _normalize_filename(name1)
    norm2,                   \* _normalize_filename(name2)
    basic_similarity,        \* SequenceMatcher(None, norm1, norm2).ratio(), in ten-thousandths
    filename_similarity,     \* what _calculate_filename_similarity returns, in ten-thousandths
    \* ---- upload_document / process_document_background ----
    bpc,                     \* document id -> position of its upload and background task
    temp_file,               \* document id -> whether its temporary file exists
    \* ---- SecurityMiddleware._check_rate_limit ----
    current_time,            \* time.time()
    request_history,         \* client ip -> the deque of accepted request times
    accepted,                \* history: client ip -> the times of all requests ever accepted
    rejected,                \* history: client ip -> how many requests were refused
    \* ---- DatabaseConnectionManager ----
    cb_time,                 \* time.time()
    connection_failures,     \* self.connection_failures
    last_failure_time,       \* self.last_failure_time
    failure_log              \* history: the times of the failures recorded since the last reset

chunkVars == <<text, chunk_size, chunk_overlap, cpc, sentences, sidx,
               current_chunk, current_chunk_sentences, carried, chunks>>

dedupVars == <<file_content, extracted_text, dpc, filename_matches, content_matches,
               semantic_matches, semantic_hits, failed, dresult>>

mergeVars == <<primary_doc_id, secondary_doc_ids, mpc, mi, secondary_docs, mresult, store0>>

fuseVars == <<max_results, fpc, semantic_results, keyword_results, combined_results,
              ranked_results, semantic_limit, keyword_limit>>

facetVars == <<fresults, gpc, base_facets, base_results, selected_facets,
               filtered_results, updated_facets>>

procVars == <<pages, page_idx, ppc, all_chunks>>

fpVars == <<candidate, existing_fingerprint, kpc, content_fingerprint, similarity>>

fnVars == <<name1, name2, npc, norm1, norm2, basic_similarity, filename_similarity>>

bgVars == <<bpc, temp_file>>

rateVars == <<current_time, request_history, accepted, rejected>>

cbVars == <<cb_time, connection_failures, last_failure_time, failure_log>>

\* the components added to the five above
serviceVars == <<procVars, fpVars, fnVars, bgVars, rateVars, cbVars>>

vars == <<chunkVars, store, dedupVars, mergeVars, fuseVars, facetVars, serviceVars>>

(***************************************************************************)
(* Bounds                                                                  *)
(***************************************************************************)
MaxTextLen == 6

(***************************************************************************)
(* Generic helpers                                                         *)
(***************************************************************************)
Min(a, b) == IF a <= b THEN a ELSE b
Max(a, b) == IF a >= b THEN a ELSE b

\* the elements of a list
Range(f) == {f[i] : i \in DOMAIN f}

RECURSIVE Flatten(_)
Flatten(ss) == IF ss = <<>> THEN <<>> ELSE Head(ss) \o Flatten(Tail(ss))

(***************************************************************************)
(* Text: characters, whitespace, str.strip, " ".join                       *)
(***************************************************************************)
Chars == {"a", ".", " "}
Punct == {".", "!", "?"}
Whitespace == {" ", "\n"}

Texts == UNION {[1..n -> Chars] : n \in 0..MaxTextLen}
ChunkSizes == {3, 5}
ChunkOverlaps == {0, 2, 5}

RECURSIVE LStrip(_)
LStrip(s) == IF s # <<>> /\ Head(s) \in Whitespace THEN LStrip(Tail(s)) ELSE s

RECURSIVE RStrip(_)
RStrip(s) == IF s # <<>> /\ s[Len(s)] \in Whitespace
             THEN RStrip(SubSeq(s, 1, Len(s) - 1)) ELSE s

Strip(s) == RStrip(LStrip(s))

RECURSIVE JoinSpace(_)
JoinSpace(ss) == IF ss = <<>> THEN <<>>
                 ELSE IF Len(ss) = 1 THEN Head(ss)
                 ELSE Head(ss) \o <<" ">> \o JoinSpace(Tail(ss))

\* collapse every whitespace run to one blank and strip both ends
RECURSIVE CollapseWs(_)
CollapseWs(s) ==
    IF s = <<>> THEN <<>>
    ELSE IF Head(s) \in Whitespace
         THEN <<" ">> \o CollapseWs(LStrip(s))
         ELSE <<Head(s)>> \o CollapseWs(Tail(s))

WsNorm(s) == CollapseWs(Strip(s))

(***************************************************************************)
(* _split_into_sentences: re.split(r'(?<=[.!?])\s+', text), then strip     *)
(* every piece and drop the empty ones.                                    *)
(***************************************************************************)
RECURSIVE WsRunEnd(_, _)
WsRunEnd(t, i) == IF i < Len(t) /\ t[i + 1] \in Whitespace THEN WsRunEnd(t, i + 1) ELSE i

\* a split on r'[.!?]\s+' (no lookbehind): the punctuation is consumed with the separator
RECURSIVE ReSplitConsumingPunct(_, _, _, _)
ReSplitConsumingPunct(t, i, cur, acc) ==
    IF i > Len(t) THEN Append(acc, cur)
    ELSE IF t[i] \in Punct /\ i < Len(t) /\ t[i + 1] \in Whitespace
         THEN ReSplitConsumingPunct(t, WsRunEnd(t, i + 1) + 1, <<>>, Append(acc, cur))
         ELSE ReSplitConsumingPunct(t, i + 1, Append(cur, t[i]), acc)

RECURSIVE ReSplitFrom(_, _, _, _)
ReSplitFrom(t, i, cur, acc) ==
    IF i > Len(t) THEN Append(acc, cur)
    ELSE IF t[i] \in Whitespace /\ i > 1 /\ t[i - 1] \in Punct
         THEN ReSplitFrom(t, WsRunEnd(t, i) + 1, <<>>, Append(acc, cur))
         ELSE ReSplitFrom(t, i + 1, Append(cur, t[i]), acc)

RECURSIVE StripAndDropEmpty(_)
StripAndDropEmpty(ps) ==
    IF ps = <<>> THEN <<>>
    ELSE IF Strip(Head(ps)) = <<>> THEN StripAndDropEmpty(Tail(ps))
         ELSE <<Strip(Head(ps))>> \o StripAndDropEmpty(Tail(ps))

SplitIntoSentences(t) == StripAndDropEmpty(ReSplitFrom(t, 1, <<>>, <<>>))

(***************************************************************************)
(* _calculate_overlap_sentences                                            *)
(***************************************************************************)
RECURSIVE OverlapWalk(_, _, _, _)
OverlapWalk(sents, k, total, overlap) ==
    \* k sentences taken from the end so far
    IF k < Len(sents) /\ total + Len(sents[Len(sents) - k]) <= overlap
    THEN OverlapWalk(sents, k + 1, total + Len(sents[Len(sents) - k]), overlap)
    ELSE k

CalculateOverlapSentences(sents, overlap) ==
    Min(OverlapWalk(sents, 0, 0, overlap), Len(sents) \div 2)

\* Python's sents[-n:]: the last n items, but the whole list when n = 0
SliceLast(sents, n) ==
    IF n = 0 \/ n >= Len(sents) THEN sents
    ELSE SubSeq(sents, Len(sents) - n + 1, Len(sents))

OverlapSentences(sents, overlap) ==
    SliceLast(sents, CalculateOverlapSentences(sents, overlap))

(***************************************************************************)
(* _create_chunk_info; carried is a history field, not in the code's dict  *)
(***************************************************************************)
CreateChunkInfo(content, chunk_index, sents, ncarried) ==
    [content        |-> content,
     chunk_index    |-> chunk_index,
     char_count     |-> Len(content),
     sentence_count |-> Len(sents),
     sentences      |-> sents,
     carried        |-> ncarried]

\* current_chunk += " " + sentence if current_chunk else sentence
AppendSentence(cur, s) == IF cur # <<>> THEN cur \o <<" ">> \o s ELSE s

\* the closing test without its "and current_chunk" conjunct
MustCloseEvenEmpty(cur, s, size) == Len(cur) + Len(s) > size

\* the test that closes the current chunk before a sentence is added
MustClose(cur, s, size) == Len(cur) + Len(s) > size /\ cur # <<>>

(***************************************************************************)
(* chunk_text                                                              *)
(***************************************************************************)
ChunkInit ==
    /\ text \in Texts
    /\ chunk_size \in ChunkSizes
    /\ chunk_overlap \in ChunkOverlaps
    /\ cpc = "start"
    /\ sentences = <<>>
    /\ sidx = 1
    /\ current_chunk = <<>>
    /\ current_chunk_sentences = <<>>
    /\ carried = 0
    /\ chunks = <<>>

\* if not text.strip(): return []   /   sentences = self._split_into_sentences(text)
ChunkTextBegin ==
    /\ cpc = "start"
    /\ IF Strip(text) = <<>>
       THEN /\ cpc' = "done"
            /\ UNCHANGED sentences
       ELSE /\ cpc' = "loop"
            /\ sentences' = SplitIntoSentences(text)
    /\ UNCHANGED <<text, chunk_size, chunk_overlap, sidx, current_chunk,
                   current_chunk_sentences, carried, chunks>>
    /\ UNCHANGED <<store, dedupVars, mergeVars, fuseVars, facetVars, serviceVars>>

\* one iteration of: for sentence in sentences
ChunkTextSentence ==
    /\ cpc = "loop"
    /\ sidx <= Len(sentences)
    /\ LET sentence == sentences[sidx]
           close    == MustClose(current_chunk, sentence, chunk_size)
           ov       == OverlapSentences(current_chunk_sentences, chunk_overlap)
           cur1     == IF close THEN JoinSpace(ov) ELSE current_chunk
           sents1   == IF close THEN ov ELSE current_chunk_sentences
       IN /\ chunks' = IF close
                       THEN Append(chunks, CreateChunkInfo(Strip(current_chunk), Len(chunks),
                                                           current_chunk_sentences, carried))
                       ELSE chunks
          /\ carried' = IF close THEN Len(ov) ELSE carried
          /\ current_chunk' = AppendSentence(cur1, sentence)
          /\ current_chunk_sentences' = Append(sents1, sentence)
    /\ sidx' = sidx + 1
    /\ UNCHANGED <<text, chunk_size, chunk_overlap, cpc, sentences>>
    /\ UNCHANGED <<store, dedupVars, mergeVars, fuseVars, facetVars, serviceVars>>

\* the for loop is exhausted: add the final chunk if it has content, return
ChunkTextFlush ==
    /\ cpc = "loop"
    /\ sidx > Len(sentences)
    /\ chunks' = IF Strip(current_chunk) # <<>>
                 THEN Append(chunks, CreateChunkInfo(Strip(current_chunk), Len(chunks),
                                                     current_chunk_sentences, carried))
                 ELSE chunks
    /\ cpc' = "done"
    /\ UNCHANGED <<text, chunk_size, chunk_overlap, sentences, sidx, current_chunk,
                   current_chunk_sentences, carried>>
    /\ UNCHANGED <<store, dedupVars, mergeVars, fuseVars, facetVars, serviceVars>>

NextChunk == ChunkTextBegin \/ ChunkTextSentence \/ ChunkTextFlush

\* chunk_text is not running
ChunkIdle ==
    /\ text = <<>>
    /\ chunk_size = 1000
    /\ chunk_overlap = 200
    /\ cpc = "idle"
    /\ sentences = <<>>
    /\ sidx = 1
    /\ current_chunk = <<>>
    /\ current_chunk_sentences = <<>>
    /\ carried = 0
    /\ chunks = <<>>

(***************************************************************************)
(* extract_text_from_pdf and process_document.  A page's text is what      *)
(* _clean_text returns: whitespace runs collapsed to one blank, stripped,  *)
(* and only non-empty pages are kept.                                      *)
(***************************************************************************)
MaxPages == 2

\* page_number is None: a chunk of the pass over the full text, which spans pages
NonePage == -1

PageTexts == {<<"a", ".", " ", "a", ".">>, <<"a", ".">>,
              <<"a", "a", ".", " ", "a">>, <<".", " ", "a", ".", " ", "a", ".">>}

PageLists == UNION {[1..n -> PageTexts] : n \in 0..MaxPages}

\* f"\n\n--- Page {page_num + 1} ---\n\n{cleaned_text}"
PageBlock(n, cleaned_text) ==
    <<"\n", "\n", "-", "-", "-", " ", "P", "a", "g", "e", " ", ToString(n), " ",
      "-", "-", "-", "\n", "\n">> \o cleaned_text

\* extracted_data["full_text"]: the blocks of all pages, stripped
FullText(ps) == Strip(Flatten([n \in 1..Len(ps) |-> PageBlock(n, ps[n])]))

\* the chunks of one chunk_text call with the document-wide index and the page
\* number process_document gives them
Reindexed(cs, first_index, page_number) ==
    [k \in 1..Len(cs) |-> [content     |-> cs[k].content,
                           chunk_index |-> first_index + k - 1,
                           page_number |-> page_number,
                           sentences   |-> cs[k].sentences]]

ProcessInit ==
    /\ pages \in PageLists
    /\ page_idx = 1
    /\ ppc = "pages"
    /\ all_chunks = <<>>

\* process_document is not running
ProcessIdle ==
    /\ pages = <<>>
    /\ page_idx = 1
    /\ ppc = "idle"
    /\ all_chunks = <<>>

\* the state chunk_text starts in when it is called with the text t
CallChunkText(t) ==
    /\ text' = t
    /\ cpc' = "start"
    /\ sentences' = <<>>
    /\ sidx' = 1
    /\ current_chunk' = <<>>
    /\ current_chunk_sentences' = <<>>
    /\ carried' = 0
    /\ chunks' = <<>>
    /\ UNCHANGED <<chunk_size, chunk_overlap>>

\* for page_info in extracted_data["pages"]: page_chunks = self.chunk_text(...)
ProcessChunkPage ==
    /\ ppc = "pages"
    /\ cpc = "idle"
    /\ page_idx <= Len(pages)
    /\ CallChunkText(pages[page_idx])
    /\ UNCHANGED <<pages, page_idx, ppc, all_chunks>>
    /\ UNCHANGED <<store, dedupVars, mergeVars, fuseVars, facetVars, fpVars, fnVars, bgVars, rateVars, cbVars>>

\* the chunks of the page get the global indices and are added to all_chunks
ProcessCollectPage ==
    /\ ppc = "pages"
    /\ cpc = "done"
    /\ all_chunks' = all_chunks \o Reindexed(chunks, Len(all_chunks), page_idx)
    /\ page_idx' = page_idx + 1
    /\ cpc' = "idle"
    /\ UNCHANGED <<pages, ppc>>
    /\ UNCHANGED <<text, chunk_size, chunk_overlap, sentences, sidx, current_chunk,
                   current_chunk_sentences, carried, chunks>>
    /\ UNCHANGED <<store, dedupVars, mergeVars, fuseVars, facetVars, fpVars, fnVars, bgVars, rateVars, cbVars>>

\* full_text_chunks = self.chunk_text(extracted_data["full_text"])
ProcessChunkFullText ==
    /\ ppc = "pages"
    /\ cpc = "idle"
    /\ page_idx > Len(pages)
    /\ CallChunkText(FullText(pages))
    /\ ppc' = "full"
    /\ UNCHANGED <<pages, page_idx, all_chunks>>
    /\ UNCHANGED <<store, dedupVars, mergeVars, fuseVars, facetVars, fpVars, fnVars, bgVars, rateVars, cbVars>>

\* the chunks of the full text continue the indices, with page_number None
ProcessCollectFullText ==
    /\ ppc = "full"
    /\ cpc = "done"
    /\ all_chunks' = all_chunks \o Reindexed(chunks, Len(all_chunks), NonePage)
    /\ ppc' = "done"
    /\ cpc' = "idle"
    /\ UNCHANGED <<pages, page_idx>>
    /\ UNCHANGED <<text, chunk_size, chunk_overlap, sentences, sidx, current_chunk,
                   current_chunk_sentences, carried, chunks>>
    /\ UNCHANGED <<store, dedupVars, mergeVars, fuseVars, facetVars, fpVars, fnVars, bgVars, rateVars, cbVars>>

NextProcess ==
    \/ ProcessChunkPage
    \/ NextChunk
    \/ ProcessCollectPage
    \/ ProcessChunkFullText
    \/ ProcessCollectFullText

(***************************************************************************)
(* The documents table.  A row is                                          *)
(*   [content_hash, processing_status, merged_into, merged_from,           *)
(*    merge_date]                                                          *)
(* where the last three are the keys of the row's metadata that the merge  *)
(* writes; an absent key is Absent, the empty list and 0.                  *)
(***************************************************************************)
None == "None"

MaxDocs == 2
DocIds == 1..MaxDocs
\* an id that no row has
MissingId == 0
\* the value of a reference that is not set
Absent == -2

Hashes == {1, 2}

NewRow(h) == [content_hash |-> h, processing_status |-> "completed",
              merged_into |-> Absent, merged_from |-> <<>>, merge_date |-> 0]

\* the None a lookup answers when no row matches
NoDoc == [id |-> MissingId, content_hash |-> 0]

\* a collaborator call either fails (raises) or answers
Failure == [ok |-> FALSE, val |-> None]
Answer(v) == [ok |-> TRUE, val |-> v]

\* what a function returns: a value, or an exception that propagates to the caller
Return(v) == [raised |-> FALSE, val |-> v]
Raise == [raised |-> TRUE, val |-> None]

\* find_document_by_content_hash: a row with that exact hash, or None
FindDocumentByContentHash(st, h) ==
    IF \E d \in DOMAIN st : st[d].content_hash = h
    THEN LET d == CHOOSE d \in DOMAIN st : st[d].content_hash = h
         IN [id |-> d, content_hash |-> h]
    ELSE NoDoc

\* get_document_by_id: the row, or None
GetDocumentById(st, d) ==
    IF d \in DOMAIN st THEN [id |-> d, content_hash |-> st[d].content_hash] ELSE NoDoc

(***************************************************************************)
(* Scores are hundredths.  Lists of matches are sequences of               *)
(*   [id, match_type, similarity_score].                                   *)
(***************************************************************************)
Match(d, type, score) == [id |-> d, match_type |-> type, similarity_score |-> score]

\* the None of an absent match
NoMatch == Match(MissingId, None, 0)

Take(s, n) == SubSeq(s, 1, Min(n, Len(s)))

\* list.sort(key=similarity_score, reverse=True): stable, equal scores keep their order
RECURSIVE InsertDesc(_, _)
InsertDesc(sorted, m) ==
    IF sorted = <<>> THEN <<m>>
    ELSE IF Head(sorted).similarity_score >= m.similarity_score
         THEN <<Head(sorted)>> \o InsertDesc(Tail(sorted), m)
         ELSE <<m>> \o sorted

RECURSIVE SortDesc(_)
SortDesc(ms) ==
    IF ms = <<>> THEN <<>>
    ELSE InsertDesc(SortDesc(SubSeq(ms, 1, Len(ms) - 1)), ms[Len(ms)])

(***************************************************************************)
(* _check_exact_content_match                                              *)
(***************************************************************************)
\* hashlib.sha256(file_content).hexdigest()
Sha256(content) == content.sha

\* the test on the lookup's answer inverted: a found document is not reported
CheckExactContentMatchInverted(resp) ==
    IF ~resp.ok THEN Return(NoMatch)
    ELSE IF resp.val = NoDoc
         THEN Return(Match(resp.val.id, "exact_content", 100))
         ELSE Return(NoMatch)

\* resp is the outcome of db_manager.find_document_by_content_hash
CheckExactContentMatch(resp) ==
    IF ~resp.ok THEN Return(NoMatch)
    ELSE IF resp.val # NoDoc
         THEN Return(Match(resp.val.id, "exact_content", 100))
         ELSE Return(NoMatch)

(***************************************************************************)
(* _check_filename_similarity                                              *)
(* resp is the outcome of get_all_document_filenames, a list of            *)
(* [id, ratio] rows where ratio stands for                                 *)
(* _calculate_filename_similarity(file_name, row's file_name).             *)
(***************************************************************************)
FilenameFloor == 70

RECURSIVE FilenameSimilar(_)
FilenameSimilar(rows) ==
    IF rows = <<>> THEN <<>>
    ELSE IF Head(rows).ratio >= FilenameFloor
         THEN <<Match(Head(rows).id, "filename", Head(rows).ratio)>> \o FilenameSimilar(Tail(rows))
         ELSE FilenameSimilar(Tail(rows))

\* without the try/except: the collaborator's failure propagates
CheckFilenameSimilarityUncaught(resp) ==
    IF ~resp.ok THEN Raise
    ELSE Return(Take(SortDesc(FilenameSimilar(resp.val)), 10))

CheckFilenameSimilarity(resp) ==
    IF ~resp.ok THEN Return(<<>>)
    ELSE Return(Take(SortDesc(FilenameSimilar(resp.val)), 10))

(***************************************************************************)
(* _create_content_fingerprint, _compare_content_fingerprints              *)
(* A fingerprint string is the sequence of its '_'-separated parts.        *)
(***************************************************************************)
KB == 1024

CreateContentFingerprint(content) ==
    <<content.head, IF content.size > KB THEN content.tail ELSE content.head, content.size>>

AbsDiff(a, b) == IF a >= b THEN a - b ELSE b - a

\* a size part that is not the decimal text of an integer
NotANumber == -1

\* raises ValueError when int() cannot read a size part, ZeroDivisionError when
\* both sizes are 0
CompareContentFingerprints(fp1, fp2) ==
    IF Len(fp1) # 3 \/ Len(fp2) # 3 THEN Return(0)
    ELSE IF fp1[3] = NotANumber \/ fp2[3] = NotANumber THEN Raise
    ELSE IF Max(fp1[3], fp2[3]) = 0 THEN Raise
    ELSE LET start_sim == IF fp1[1] = fp2[1] THEN 100 ELSE 0
             end_sim   == IF fp1[2] = fp2[2] THEN 100 ELSE 0
             big       == Max(fp1[3], fp2[3])
             \* max(0.0, 1.0 - size_diff), in hundredths
             size_sim  == Max(0, (100 * (big - AbsDiff(fp1[3], fp2[3]))) \div big)
         IN Return((start_sim * 4 + end_sim * 4 + size_sim * 2) \div 10)

(***************************************************************************)
(* _check_content_similarity                                               *)
(* resp is the outcome of get_documents_with_metadata, a list of           *)
(* [id, content_fingerprint] rows (the empty sequence when the metadata    *)
(* has no fingerprint).                                                    *)
(***************************************************************************)
ContentFloor == 80

\* the for loop: the list of matches, or Raise when a comparison raises
RECURSIVE ContentSimilar(_, _)
ContentSimilar(fp, rows) ==
    IF rows = <<>> THEN Return(<<>>)
    ELSE LET rest == ContentSimilar(fp, Tail(rows))
             row  == Head(rows)
         IN IF row.content_fingerprint = <<>> THEN rest
            ELSE LET sim == CompareContentFingerprints(fp, row.content_fingerprint)
                 IN IF sim.raised \/ rest.raised THEN Raise
                    ELSE IF sim.val >= ContentFloor
                         THEN Return(<<Match(row.id, "content_hash", sim.val)>> \o rest.val)
                         ELSE rest

CheckContentSimilarity(content, resp) ==
    IF ~resp.ok THEN Return(<<>>)
    ELSE LET similar == ContentSimilar(CreateContentFingerprint(content), resp.val)
         IN IF similar.raised THEN Return(<<>>)
            ELSE Return(Take(SortDesc(similar.val), 10))

(***************************************************************************)
(* _check_semantic_similarity                                              *)
(* embed_ok: generate_query_embedding answered; hits: the rows             *)
(* [document_id, similarity_score] db_manager.similarity_search answers    *)
(* (it answers [] when it fails); lookup_ok: get_document_by_id answers.   *)
(***************************************************************************)
\* a dict keeps a key at the place of its first insertion
RECURSIVE DictPut(_, _)
DictPut(ms, m) ==
    IF ms = <<>> THEN <<m>>
    ELSE IF Head(ms).id = m.id THEN <<m>> \o Tail(ms)
         ELSE <<Head(ms)>> \o DictPut(Tail(ms), m)

\* {doc['id']: doc for doc in semantic_matches}.values()
RECURSIVE UniqueById(_)
UniqueById(ms) ==
    IF ms = <<>> THEN <<>>
    ELSE DictPut(UniqueById(SubSeq(ms, 1, Len(ms) - 1)), ms[Len(ms)])

\* the for loop over the hits, for lookups that answer
RECURSIVE SemanticLoop(_, _)
SemanticLoop(st, hits) ==
    IF hits = <<>> THEN <<>>
    ELSE LET doc_info == GetDocumentById(st, Head(hits).document_id)
         IN IF doc_info # NoDoc
            THEN <<Match(doc_info.id, "semantic", Head(hits).similarity_score)>>
                     \o SemanticLoop(st, Tail(hits))
            ELSE SemanticLoop(st, Tail(hits))

CheckSemanticSimilarity(st, embed_ok, hits, lookup_ok) ==
    IF ~embed_ok THEN Return(<<>>)
    ELSE IF hits # <<>> /\ ~lookup_ok THEN Return(<<>>)
    ELSE Return(Take(SortDesc(UniqueById(SemanticLoop(st, hits))), 5))

(***************************************************************************)
(* _consolidate_matches, _determine_action                                 *)
(***************************************************************************)
\* all_matches[doc_id] = match when the id is new or the score is strictly higher
RECURSIVE PutIfHigher(_, _)
PutIfHigher(ms, m) ==
    IF ms = <<>> THEN <<m>>
    ELSE IF Head(ms).id = m.id
         THEN IF m.similarity_score > Head(ms).similarity_score
              THEN <<m>> \o Tail(ms) ELSE ms
         ELSE <<Head(ms)>> \o PutIfHigher(Tail(ms), m)

RECURSIVE PutAll(_, _)
PutAll(acc, ms) == IF ms = <<>> THEN acc ELSE PutAll(PutIfHigher(acc, Head(ms)), Tail(ms))

ConsolidateMatches(fm, cm, sm) == PutAll(PutAll(PutAll(<<>>, fm), cm), sm)

\* max(all_matches, key=similarity_score): the first item with the highest score
RECURSIVE MaxBy(_)
MaxBy(ms) ==
    IF Len(ms) = 1 THEN ms[1]
    ELSE LET rest == MaxBy(Tail(ms))
         IN IF Head(ms).similarity_score >= rest.similarity_score THEN Head(ms) ELSE rest

SimilarityThreshold == 85

\* strict comparisons at the thresholds
DetermineActionStrict(best_match) ==
    IF best_match.similarity_score > 95 THEN "skip"
    ELSE IF best_match.similarity_score > 90
         THEN IF best_match.match_type = "semantic" THEN "merge" ELSE "replace"
    ELSE IF best_match.similarity_score > 85 THEN "review"
    ELSE "proceed"

DetermineAction(best_match) ==
    IF best_match.similarity_score >= 95 THEN "skip"
    ELSE IF best_match.similarity_score >= 90
         THEN IF best_match.match_type = "semantic" THEN "merge" ELSE "replace"
    ELSE IF best_match.similarity_score >= 85 THEN "review"
    ELSE "proceed"

(***************************************************************************)
(* The dict check_for_duplicates returns (recommendations left out)        *)
(***************************************************************************)
DefaultResult ==
    [is_duplicate |-> FALSE, confidence |-> 0, duplicate_type |-> None,
     existing_document |-> NoMatch, similar_documents |-> <<>>, action |-> "proceed",
     error |-> FALSE]

ExactResult(exact_match) ==
    [DefaultResult EXCEPT !.is_duplicate = TRUE, !.confidence = 100,
                          !.duplicate_type = "exact_content",
                          !.existing_document = exact_match, !.action = "skip"]

\* lines 83-109
AnalyzeMatches(all_matches) ==
    IF all_matches = <<>> THEN DefaultResult
    ELSE LET best_match == MaxBy(all_matches)
         IN IF best_match.similarity_score >= SimilarityThreshold
            THEN [DefaultResult EXCEPT !.is_duplicate = TRUE,
                                       !.confidence = best_match.similarity_score,
                                       !.duplicate_type = best_match.match_type,
                                       !.existing_document = best_match,
                                       !.similar_documents = Take(all_matches, 5),
                                       !.action = DetermineAction(best_match)]
            ELSE [DefaultResult EXCEPT !.similar_documents = Take(all_matches, 3)]

\* the except branch of check_for_duplicates
ErrorResult == [DefaultResult EXCEPT !.error = TRUE]

(***************************************************************************)
(* check_for_duplicates, one action per awaited detection method           *)
(***************************************************************************)
Contents ==
    {[sha |-> 1, head |-> 1, tail |-> 1, size |-> z] : z \in {0, 2 * KB}}
        \cup {[sha |-> 1, head |-> 1, tail |-> 2, size |-> 2 * KB]}

ExtractedTexts == {<<>>, <<"t">>}

\* _calculate_filename_similarity results the stored names give
FilenameRatios == {60, 90, 95}

\* stored content_fingerprint values: absent, malformed, well-formed
StoredFingerprints ==
    {<<>>, <<1, 1>>, <<1, 1, 0>>, <<1, 1, KB>>, <<1, 1, 2 * KB>>, <<1, 2, 2 * KB>>}

\* scores the vector search answers at threshold 0.85
SemanticScores == {86, 90}
MaxHits == 1
\* two chunks of one document among the hits, the better one first
RepeatedHits ==
    {<<[document_id |-> p[1], similarity_score |-> p[2]],
       [document_id |-> p[1], similarity_score |-> p[3]]>>
        : p \in {q \in DocIds \X SemanticScores \X SemanticScores : q[3] < q[2]}}

HitLists ==
    UNION {[1..n -> [document_id : DocIds \cup {MissingId}, similarity_score : SemanticScores]]
              : n \in 0..MaxHits} \cup RepeatedHits

Stores == [DocIds -> {NewRow(h) : h \in Hashes}]

\* outcomes of get_all_document_filenames: a failure, or one row per document
FilenameResponses ==
    {Failure} \cup
    {Answer([d \in DocIds |-> [id |-> d, ratio |-> ratios[d]]])
        : ratios \in [DocIds -> FilenameRatios]}

\* outcomes of get_documents_with_metadata: a failure, or one row per document
MetadataResponses ==
    {Failure} \cup
    {Answer([d \in DocIds |-> [id |-> d, content_fingerprint |-> fps[d]]])
        : fps \in [DocIds -> StoredFingerprints]}

\* outcomes of the collaborator calls of the semantic method: nothing is called
\* without text; else the embedding fails, or a lookup of a hit fails, or all answer
SemanticCalls(txt) ==
    IF txt = <<>> THEN {[embed_ok |-> TRUE, lookup_ok |-> TRUE, hits |-> <<>>]}
    ELSE {[embed_ok |-> FALSE, lookup_ok |-> TRUE, hits |-> <<>>]}
         \cup {[embed_ok |-> TRUE, lookup_ok |-> FALSE, hits |-> h]
                  : h \in {x \in HitLists : Len(x) = 1}}
         \cup {[embed_ok |-> TRUE, lookup_ok |-> TRUE, hits |-> h] : h \in HitLists}

DedupInit ==
    /\ file_content \in Contents
    /\ extracted_text \in ExtractedTexts
    /\ dpc = "exact"
    /\ filename_matches = <<>>
    /\ content_matches = <<>>
    /\ semantic_matches = <<>>
    /\ semantic_hits = <<>>
    /\ failed = {}
    /\ dresult = DefaultResult

\* check_for_duplicates is not running
DedupIdle ==
    /\ file_content = [sha |-> 1, head |-> 1, tail |-> 1, size |-> 0]
    /\ extracted_text = <<>>
    /\ dpc = "idle"
    /\ filename_matches = <<>>
    /\ content_matches = <<>>
    /\ semantic_matches = <<>>
    /\ semantic_hits = <<>>
    /\ failed = {}
    /\ dresult = DefaultResult

\* Method 1, lines 53-67
DedupExact ==
    /\ dpc = "exact"
    /\ \E ok \in BOOLEAN :
          LET resp == IF ok THEN Answer(FindDocumentByContentHash(store, Sha256(file_content)))
                      ELSE Failure
              r    == CheckExactContentMatch(resp)
          IN /\ failed' = IF ok THEN failed ELSE failed \cup {"exact_content"}
             /\ IF r.raised
                THEN dresult' = ErrorResult /\ dpc' = "done"
                ELSE IF r.val # NoMatch
                     THEN dresult' = ExactResult(r.val) /\ dpc' = "done"
                     ELSE dresult' = dresult /\ dpc' = "filename"
    /\ UNCHANGED <<file_content, extracted_text, filename_matches, content_matches,
                   semantic_matches, semantic_hits>>
    /\ UNCHANGED <<chunkVars, store, mergeVars, fuseVars, facetVars, serviceVars>>

\* Method 2, line 70
DedupFilename ==
    /\ dpc = "filename"
    /\ \E resp \in FilenameResponses :
          LET r == CheckFilenameSimilarity(resp)
          IN /\ failed' = IF resp.ok THEN failed ELSE failed \cup {"filename"}
             /\ IF r.raised
                THEN dresult' = ErrorResult /\ dpc' = "done" /\ UNCHANGED filename_matches
                ELSE dresult' = dresult /\ dpc' = "content" /\ filename_matches' = r.val
    /\ UNCHANGED <<file_content, extracted_text, content_matches, semantic_matches,
                   semantic_hits>>
    /\ UNCHANGED <<chunkVars, store, mergeVars, fuseVars, facetVars, serviceVars>>

\* Method 3, line 73
DedupContent ==
    /\ dpc = "content"
    /\ \E resp \in MetadataResponses :
          LET r == CheckContentSimilarity(file_content, resp)
              broke == resp.ok /\ ContentSimilar(CreateContentFingerprint(file_content),
                                                  resp.val).raised
          IN /\ failed' = IF resp.ok /\ ~broke THEN failed ELSE failed \cup {"content_hash"}
             /\ IF r.raised
                THEN dresult' = ErrorResult /\ dpc' = "done" /\ UNCHANGED content_matches
                ELSE dresult' = dresult /\ dpc' = "semantic" /\ content_matches' = r.val
    /\ UNCHANGED <<file_content, extracted_text, filename_matches, semantic_matches,
                   semantic_hits>>
    /\ UNCHANGED <<chunkVars, store, mergeVars, fuseVars, facetVars, serviceVars>>

\* Method 4 and the analysis of all matches, lines 76-109
DedupSemanticAndDecide ==
    /\ dpc = "semantic"
    /\ \E c \in SemanticCalls(extracted_text) :
          LET r == IF extracted_text # <<>>
                   THEN CheckSemanticSimilarity(store, c.embed_ok, c.hits, c.lookup_ok)
                   ELSE Return(<<>>)
              broke == extracted_text # <<>>
                          /\ (~c.embed_ok \/ (c.hits # <<>> /\ ~c.lookup_ok))
          IN /\ failed' = IF broke THEN failed \cup {"semantic"} ELSE failed
             /\ semantic_hits' = c.hits
             /\ IF r.raised
                THEN dresult' = ErrorResult /\ UNCHANGED semantic_matches
                ELSE /\ semantic_matches' = r.val
                     /\ dresult' = AnalyzeMatches(
                            ConsolidateMatches(filename_matches, content_matches, r.val))
    /\ dpc' = "done"
    /\ UNCHANGED <<file_content, extracted_text, filename_matches, content_matches>>
    /\ UNCHANGED <<chunkVars, store, mergeVars, fuseVars, facetVars, serviceVars>>

NextDedup == DedupExact \/ DedupFilename \/ DedupContent \/ DedupSemanticAndDecide

(***************************************************************************)
(* update_document_status (database.py) and the storage calls of the merge *)
(***************************************************************************)
\* update_document_status never raises: ok is whether the update went through;
\* the answer is the new table and the returned flag
UpdateDocumentStatus(st, d, status, ok) ==
    IF ok
    THEN [table |-> IF d \in DOMAIN st
                    THEN [st EXCEPT ![d].processing_status = status] ELSE st,
          returned |-> TRUE]
    ELSE [table |-> st, returned |-> FALSE]

\* update_document_metadata: the keys of the patch are written into the row's metadata
UpdateDocumentMetadata(st, d, patch) ==
    IF d \in DOMAIN st
    THEN [st EXCEPT ![d] = [f \in DOMAIN st[d] |->
                               IF f \in DOMAIN patch THEN patch[f] ELSE st[d][f]]]
    ELSE st

(***************************************************************************)
(* merge_duplicate_documents (route) and merge_similar_documents           *)
(***************************************************************************)
MaxMergeDocs == 3
MaxSecondary == 2
MergeDocIds == 1..MaxMergeDocs
\* an empty id
EmptyId == -1

SecondaryLists == UNION {[1..n -> MergeDocIds \cup {MissingId}] : n \in 0..MaxSecondary}

\* the timestamp datetime.now().isoformat() writes
Now == 1

MergePending == [success |-> FALSE, http |-> 0]

MergeInit ==
    /\ primary_doc_id \in MergeDocIds \cup {MissingId, EmptyId}
    /\ secondary_doc_ids \in SecondaryLists
    /\ mpc = "route"
    /\ mi = 1
    /\ secondary_docs = <<>>
    /\ mresult = MergePending
    /\ store0 = store

\* no merge is running
MergeIdle ==
    /\ primary_doc_id = MissingId
    /\ secondary_doc_ids = <<>>
    /\ mpc = "idle"
    /\ mi = 1
    /\ secondary_docs = <<>>
    /\ mresult = MergePending
    /\ store0 = store

\* the except branch of merge_similar_documents, answered by the route with 500
MergeFails ==
    /\ mresult' = [success |-> FALSE, http |-> 500]
    /\ mpc' = "done"

\* advanced_routes.py: both ids are required, else 400 and no merge
MergeRoute ==
    /\ mpc = "route"
    /\ IF primary_doc_id = EmptyId \/ secondary_doc_ids = <<>>
       THEN mresult' = [success |-> FALSE, http |-> 400] /\ mpc' = "done"
       ELSE mresult' = mresult /\ mpc' = "get_primary"
    /\ UNCHANGED <<primary_doc_id, secondary_doc_ids, mi, secondary_docs, store0, store>>
    /\ UNCHANGED <<chunkVars, dedupVars, fuseVars, facetVars, serviceVars>>

\* primary_doc = await db_manager.get_document_by_id(primary_doc_id)
MergeGetPrimary ==
    /\ mpc = "get_primary"
    /\ \E ok \in BOOLEAN :
          IF ok THEN mresult' = mresult /\ mpc' = "get_secondary"
          ELSE MergeFails
    /\ UNCHANGED <<primary_doc_id, secondary_doc_ids, mi, secondary_docs, store0, store>>
    /\ UNCHANGED <<chunkVars, dedupVars, fuseVars, facetVars, serviceVars>>

\* one iteration of the first loop: doc = await get_document_by_id(doc_id); if doc: append
MergeGetSecondary ==
    /\ mpc = "get_secondary"
    /\ \E ok \in BOOLEAN :
          IF ok
          THEN LET doc == GetDocumentById(store, secondary_doc_ids[mi])
               IN /\ secondary_docs' = IF doc # NoDoc THEN Append(secondary_docs, doc)
                                       ELSE secondary_docs
                  /\ mi' = IF mi = Len(secondary_doc_ids) THEN 1 ELSE mi + 1
                  /\ mpc' = IF mi = Len(secondary_doc_ids) THEN "update_primary" ELSE mpc
                  /\ mresult' = mresult
          ELSE MergeFails /\ UNCHANGED <<mi, secondary_docs>>
    /\ UNCHANGED <<primary_doc_id, secondary_doc_ids, store0, store>>
    /\ UNCHANGED <<chunkVars, dedupVars, fuseVars, facetVars, serviceVars>>

\* await db_manager.update_document_metadata(primary_doc_id, merged_metadata)
MergeUpdatePrimary ==
    /\ mpc = "update_primary"
    /\ \E ok \in BOOLEAN :
          IF ok
          THEN /\ store' = UpdateDocumentMetadata(store, primary_doc_id,
                               [merged_from |-> secondary_doc_ids, merge_date |-> Now])
               /\ mpc' = "mark_status"
               /\ mresult' = mresult
          ELSE MergeFails /\ UNCHANGED store
    /\ UNCHANGED <<primary_doc_id, secondary_doc_ids, mi, secondary_docs, store0>>
    /\ UNCHANGED <<chunkVars, dedupVars, fuseVars, facetVars, serviceVars>>

\* second loop: await db_manager.update_document_status(doc_id, "merged"), result ignored
MergeMarkStatus ==
    /\ mpc = "mark_status"
    /\ \E ok \in BOOLEAN :
          store' = UpdateDocumentStatus(store, secondary_doc_ids[mi], "merged", ok).table
    /\ mpc' = "mark_metadata"
    /\ UNCHANGED <<primary_doc_id, secondary_doc_ids, mi, secondary_docs, mresult, store0>>
    /\ UNCHANGED <<chunkVars, dedupVars, fuseVars, facetVars, serviceVars>>

\* second loop: await db_manager.update_document_metadata(doc_id, {merged_into, merge_date});
\* after the last id: return success
MergeMarkMetadata ==
    /\ mpc = "mark_metadata"
    /\ \E ok \in BOOLEAN :
          IF ok
          THEN /\ store' = UpdateDocumentMetadata(store, secondary_doc_ids[mi],
                               [merged_into |-> primary_doc_id, merge_date |-> Now])
               /\ IF mi = Len(secondary_doc_ids)
                  THEN mresult' = [success |-> TRUE, http |-> 200] /\ mpc' = "done" /\ mi' = mi
                  ELSE mresult' = mresult /\ mpc' = "mark_status" /\ mi' = mi + 1
          ELSE MergeFails /\ UNCHANGED <<store, mi>>
    /\ UNCHANGED <<primary_doc_id, secondary_doc_ids, secondary_docs, store0>>
    /\ UNCHANGED <<chunkVars, dedupVars, fuseVars, facetVars, serviceVars>>

NextMerge ==
    \/ MergeRoute \/ MergeGetPrimary \/ MergeGetSecondary
    \/ MergeUpdatePrimary \/ MergeMarkStatus \/ MergeMarkMetadata

(***************************************************************************)
(* _hybrid_search: _merge_search_results, _rerank_hybrid_results           *)
(* A hit is [document_id, chunk_id, similarity_score] with the score in    *)
(* hundredths; a fused record's similarity_score is in ten-thousandths.    *)
(***************************************************************************)
MaxResults == 4
HitScores == {0, 30, 70, 90}
HitChunks == {1, 2}
Hits == [document_id : {1}, chunk_id : HitChunks, similarity_score : HitScores]

\* the result lists a search can answer when asked for at most limit hits
ResultLists(limit) == UNION {[1..n -> Hits] : n \in 0..limit}

\* the result count _hybrid_search asks of each search method
PerMethodLimit(n) == n \div 2

\* _get_result_key
GetResultKey(result) == <<result.document_id, result.chunk_id>>

Fused(result, sem, kw, methods) ==
    [document_id |-> result.document_id, chunk_id |-> result.chunk_id,
     similarity_score |-> result.similarity_score,
     semantic_score |-> sem, keyword_score |-> kw, search_methods |-> methods]

\* merged[key] = value: a new key goes last, a known key keeps its place
RECURSIVE KeyPut(_, _)
KeyPut(ms, m) ==
    IF ms = <<>> THEN <<m>>
    ELSE IF GetResultKey(Head(ms)) = GetResultKey(m) THEN <<m>> \o Tail(ms)
         ELSE <<Head(ms)>> \o KeyPut(Tail(ms), m)

HasKey(ms, key) == \E i \in 1..Len(ms) : GetResultKey(ms[i]) = key

Lookup(ms, key) == ms[CHOOSE i \in 1..Len(ms) : GetResultKey(ms[i]) = key]

\* the first loop of _merge_search_results
RECURSIVE AddSemantic(_, _)
AddSemantic(merged, results) ==
    IF results = <<>> THEN merged
    ELSE AddSemantic(KeyPut(merged, Fused(Head(results), Head(results).similarity_score, 0,
                                          <<"semantic">>)),
                     Tail(results))

\* the second loop of _merge_search_results
RECURSIVE AddKeyword(_, _)
AddKeyword(merged, results) ==
    IF results = <<>> THEN merged
    ELSE LET result == Head(results)
             key    == GetResultKey(result)
         IN IF HasKey(merged, key)
            THEN LET old == Lookup(merged, key)
                 IN AddKeyword(KeyPut(merged,
                                      [old EXCEPT !.keyword_score = result.similarity_score,
                                                  !.search_methods = Append(@, "keyword")]),
                               Tail(results))
            ELSE AddKeyword(KeyPut(merged, Fused(result, 0, result.similarity_score,
                                                 <<"keyword">>)),
                            Tail(results))

MergeSearchResults(sem, kw) == AddKeyword(AddSemantic(<<>>, sem), kw)

\* the weighted combination without the boost for multiple search methods
CombinedScoreUnboosted(result) ==
    (result.semantic_score * 7 + result.keyword_score * 3) * 10

\* semantic * 0.7 + keyword * 0.3, times 1.1 for more than one search method
CombinedScore(result) ==
    LET combined == result.semantic_score * 7 + result.keyword_score * 3
    IN IF Len(result.search_methods) > 1 THEN combined * 11 ELSE combined * 10

RerankHybridResults(results) ==
    SortDesc([i \in 1..Len(results) |->
                 [results[i] EXCEPT !.similarity_score = CombinedScore(results[i])]])

FuseInit ==
    /\ max_results \in 1..MaxResults
    /\ fpc = "semantic"
    /\ semantic_results = <<>>
    /\ keyword_results = <<>>
    /\ combined_results = <<>>
    /\ ranked_results = <<>>
    /\ semantic_limit = 0
    /\ keyword_limit = 0

\* no search is running
FuseIdle ==
    /\ max_results = 20
    /\ fpc = "idle"
    /\ semantic_results = <<>>
    /\ keyword_results = <<>>
    /\ combined_results = <<>>
    /\ ranked_results = <<>>
    /\ semantic_limit = 0
    /\ keyword_limit = 0

\* semantic_results = await self._semantic_search(query, max_results // 2, threshold)
HybridSemanticSearch ==
    /\ fpc = "semantic"
    /\ semantic_limit' = PerMethodLimit(max_results)
    /\ semantic_results' \in ResultLists(semantic_limit')
    /\ fpc' = "keyword"
    /\ UNCHANGED <<max_results, keyword_results, combined_results, ranked_results,
                   keyword_limit>>
    /\ UNCHANGED <<chunkVars, store, dedupVars, mergeVars, facetVars, serviceVars>>

\* keyword_results = await self._keyword_search(query, max_results // 2)
HybridKeywordSearch ==
    /\ fpc = "keyword"
    /\ keyword_limit' = PerMethodLimit(max_results)
    /\ keyword_results' \in ResultLists(keyword_limit')
    /\ fpc' = "fuse"
    /\ UNCHANGED <<max_results, semantic_results, combined_results, ranked_results,
                   semantic_limit>>
    /\ UNCHANGED <<chunkVars, store, dedupVars, mergeVars, facetVars, serviceVars>>

\* merge, rerank, return ranked_results[:max_results]
HybridFuse ==
    /\ fpc = "fuse"
    /\ combined_results' = MergeSearchResults(semantic_results, keyword_results)
    /\ ranked_results' = Take(RerankHybridResults(combined_results'), max_results)
    /\ fpc' = "done"
    /\ UNCHANGED <<max_results, semantic_results, keyword_results, semantic_limit,
                   keyword_limit>>
    /\ UNCHANGED <<chunkVars, store, dedupVars, mergeVars, facetVars, serviceVars>>

NextFuse == HybridSemanticSearch \/ HybridKeywordSearch \/ HybridFuse

(***************************************************************************)
(* _generate_facets, _get_document_type, faceted_search                    *)
(* A result is [document_name, similarity_score, page_number, content]:    *)
(* the file name is the list of its parts between the dots ("" is the      *)
(* list of one empty part), the score is in hundredths, the content is the *)
(* set of its lower-case words.  A facet is the list of its buckets        *)
(* [value, count]; a bucket's label is a function of its value and is left *)
(* out.                                                                    *)
(***************************************************************************)
MaxFacetResults == 3

FacetHits ==
    { [document_name |-> <<"report", "pdf">>,  similarity_score |-> 80,
       page_number |-> 10,       content |-> {"gdp", "export", "development"}],
      [document_name |-> <<"slides", "PPTX">>, similarity_score |-> 60,
       page_number |-> 11,       content |-> {"export", "development"}],
      [document_name |-> <<"">>,               similarity_score |-> 59,
       page_number |-> 0,        content |-> {}],
      [document_name |-> <<"notes", "docx">>,  similarity_score |-> 79,
       page_number |-> NonePage, content |-> {"development"}],
      [document_name |-> <<"archive", "tar">>, similarity_score |-> 90,
       page_number |-> 101,      content |-> {"gdp"}],
      [document_name |-> <<"data", "txt">>,    similarity_score |-> 50,
       page_number |-> 51,       content |-> {"energy"}] }

FacetResultLists == UNION {[1..n -> FacetHits] : n \in 0..MaxFacetResults}

\* str.lower() on the file name parts of the model
Lower(part) ==
    CASE part = "PPTX" -> "pptx"
      [] part = "PDF"  -> "pdf"
      [] OTHER         -> part

\* _get_document_type
GetDocumentType(filename) ==
    IF filename = <<"">> THEN "unknown"
    ELSE LET extension == IF Len(filename) > 1 THEN Lower(filename[Len(filename)]) ELSE ""
         IN IF extension \in {"pdf", "pptx", "docx", "txt"} THEN extension ELSE "unknown"

\* the confidence level of the if / elif / else chain
ConfidenceLevel(confidence) ==
    IF confidence >= 80 THEN "high"
    ELSE IF confidence >= 60 THEN "medium"
    ELSE "low"

\* a chain of independent tests: a page counts in every range it is below
PageRangeKeysCumulative(page_num) ==
    (IF page_num <= 10 THEN {"1-10"} ELSE {})
      \cup (IF page_num <= 50 THEN {"11-50"} ELSE {})
      \cup (IF page_num <= 100 THEN {"51-100"} ELSE {"100+"})

\* the range keys the if / elif chain counts a page number in (exactly one)
PageRangeKeys(page_num) ==
    IF page_num <= 10 THEN {"1-10"}
    ELSE IF page_num <= 50 THEN {"11-50"}
    ELSE IF page_num <= 100 THEN {"51-100"}
    ELSE {"100+"}

\* the keyword-to-category table, three of its rows
CategoryKeywords ==
    [economy    |-> {"economic", "gdp", "growth", "development", "prosperity"},
     innovation |-> {"technology", "research", "development", "startup", "tech"},
     trade      |-> {"export", "import", "commerce", "international", "global"}]

Categories == DOMAIN CategoryKeywords

\* the categories a result contributes to: those with a keyword in its content
ContentCategories(result) ==
    {c \in Categories : CategoryKeywords[c] \cap result.content # {}}

\* the keys each result counts for: one set of keys per result
KeysOf(results, facet) ==
    [i \in 1..Len(results) |->
        CASE facet = "document_type"    -> {GetDocumentType(results[i].document_name)}
          [] facet = "confidence_level" -> {ConfidenceLevel(results[i].similarity_score)}
          [] facet = "page_range"       -> PageRangeKeys(results[i].page_number)
          [] OTHER                      -> ContentCategories(results[i])]

\* counter[key]: how many results count for the key
Count(keys, key) == Cardinality({i \in 1..Len(keys) : key \in keys[i]})

\* the buckets of the keys with a positive count, in the order given
RECURSIVE Buckets(_, _)
Buckets(keys, order) ==
    IF order = <<>> THEN <<>>
    ELSE (IF Count(keys, Head(order)) > 0
          THEN <<[value |-> Head(order), count |-> Count(keys, Head(order))]>>
          ELSE <<>>) \o Buckets(keys, Tail(order))

\* sorted(doc_types.items()): the keys in alphabetical order
SortedDocTypes == <<"docx", "pdf", "pptx", "txt", "unknown">>

\* the confidence levels in severity order
SeverityOrder == <<"high", "medium", "low">>

\* sorted(confidence_levels.items()): the keys in alphabetical order
SortedConfidenceLevels == <<"high", "low", "medium">>

\* the literal order of the page_range comprehension
PageRangeOrder == <<"1-10", "11-50", "51-100", "100+">>

\* sorted(categories.items()): the keys in alphabetical order
SortedCategories == <<"economy", "innovation", "trade">>

\* doc_types counted with a counter that is kept between the calls
DocumentTypeFacetKept(results) ==
    LET fresh == Buckets(KeysOf(results, "document_type"), SortedDocTypes)
    IN IF base_facets.facets.document_type = <<>> THEN fresh
       ELSE [k \in 1..Len(fresh) |-> [fresh[k] EXCEPT !.count = @ + 1]]

\* facets['document_type']
DocumentTypeFacet(results) == Buckets(KeysOf(results, "document_type"), SortedDocTypes)

\* facets['confidence_level']
ConfidenceLevelFacet(results) ==
    Buckets(KeysOf(results, "confidence_level"), SortedConfidenceLevels)

\* facets['page_range']
PageRangeFacet(results) == Buckets(KeysOf(results, "page_range"), PageRangeOrder)

\* _analyze_content_categories and facets['content_category']
ContentCategoryFacet(results) ==
    Buckets(KeysOf(results, "content_category"), SortedCategories)

\* the empty dict
EmptyFacets ==
    [document_type |-> <<>>, confidence_level |-> <<>>, page_range |-> <<>>,
     content_category |-> <<>>]

FacetsReturn(f) == [raised |-> FALSE, facets |-> f]
\* the TypeError of None <= 10 leaves _generate_facets
FacetsRaise == [raised |-> TRUE, facets |-> EmptyFacets]

\* _generate_facets
GenerateFacets(results) ==
    IF results = <<>> THEN FacetsReturn(EmptyFacets)
    ELSE IF \E i \in 1..Len(results) : results[i].page_number = NonePage
         THEN FacetsRaise
         ELSE FacetsReturn([document_type    |-> DocumentTypeFacet(results),
                            confidence_level |-> ConfidenceLevelFacet(results),
                            page_range       |-> PageRangeFacet(results),
                            content_category |-> ContentCategoryFacet(results)])

\* the facet names with the function that gives a result's values of the facet
NoSelection == [facet |-> "none", value |-> "none"]

FacetValues(facet, result) ==
    IF facet = "page_range" /\ result.page_number = NonePage THEN {}
    ELSE KeysOf(<<result>>, facet)[1]

Selections ==
    {NoSelection}
      \cup [facet : {"document_type"}, value : Range(SortedDocTypes)]
      \cup [facet : {"confidence_level"}, value : Range(SeverityOrder)]
      \cup [facet : {"page_range"}, value : Range(PageRangeOrder)]
      \cup [facet : {"content_category"}, value : Categories]

\* _filter_by_facet for every selected facet: the results with a selected value
FilterByFacet(results, selection) ==
    IF selection = NoSelection THEN results
    ELSE SelectSeq(results, LAMBDA r : selection.value \in FacetValues(selection.facet, r))

FacetInit ==
    /\ fresults \in FacetResultLists
    /\ gpc = "base"
    /\ base_facets = FacetsReturn(EmptyFacets)
    /\ base_results = <<>>
    /\ selected_facets = NoSelection
    /\ filtered_results = <<>>
    /\ updated_facets = FacetsReturn(EmptyFacets)

\* no facet generation is running
FacetIdle ==
    /\ fresults = <<>>
    /\ gpc = "idle"
    /\ base_facets = FacetsReturn(EmptyFacets)
    /\ base_results = <<>>
    /\ selected_facets = NoSelection
    /\ filtered_results = <<>>
    /\ updated_facets = FacetsReturn(EmptyFacets)

\* advanced_search: facets = await self._generate_facets(filtered_results); an
\* exception makes advanced_search answer "results": []
AdvancedSearchFacets ==
    /\ gpc = "base"
    /\ base_facets' = GenerateFacets(fresults)
    /\ base_results' = IF base_facets'.raised THEN <<>> ELSE fresults
    /\ gpc' = "refine"
    /\ UNCHANGED <<fresults, selected_facets, filtered_results, updated_facets>>
    /\ UNCHANGED <<chunkVars, store, dedupVars, mergeVars, fuseVars, serviceVars>>

\* faceted_search: filter the base results by the selection, regenerate the facets
FacetedSearch ==
    /\ gpc = "refine"
    /\ \E selection \in Selections :
          /\ selected_facets' = selection
          /\ filtered_results' = FilterByFacet(base_results, selection)
          /\ updated_facets' = GenerateFacets(filtered_results')
    /\ gpc' = "done"
    /\ UNCHANGED <<fresults, base_facets, base_results>>
    /\ UNCHANGED <<chunkVars, store, dedupVars, mergeVars, fuseVars, serviceVars>>

NextFacet == AdvancedSearchFacets \/ FacetedSearch

(***************************************************************************)
(* Specifications                                                          *)
(***************************************************************************)
(***************************************************************************)
(* One comparison of a candidate's fingerprint with a stored one           *)
(***************************************************************************)
\* the first 8 hex digits of the MD5 of no bytes
EmptyDigest == 0

\* contents of 0, 1, 1024 and 2048 bytes; a content of 0 bytes has the digest
\* of no bytes at both ends, one of at most 1 KB the same digest at both ends
FingerprintContents ==
    {[sha |-> 1, head |-> EmptyDigest, tail |-> EmptyDigest, size |-> 0]}
        \cup {[sha |-> 1, head |-> h, tail |-> h, size |-> z] : h \in {1, 2}, z \in {1, KB}}
        \cup {[sha |-> 1, head |-> h, tail |-> t, size |-> 2 * KB] : h \in {1, 2}, t \in {1, 2}}

\* stored values that are not "<8 hex>_<8 hex>_<size>": the empty text, a text
\* of two parts, a third part that is no number
MalformedFingerprints == {<<>>, <<1, 1>>, <<1, 1, NotANumber>>, <<2, 1, NotANumber>>}

\* what is stored: the fingerprint of some content, or a malformed value
ExistingFingerprints ==
    {CreateContentFingerprint(c) : c \in FingerprintContents} \cup MalformedFingerprints

\* the comparison has not been made
NoSimilarity == [raised |-> FALSE, val |-> -1]

FingerprintInit ==
    /\ candidate \in FingerprintContents
    /\ existing_fingerprint \in ExistingFingerprints
    /\ kpc = "create"
    /\ content_fingerprint = <<>>
    /\ similarity = NoSimilarity

FingerprintIdle ==
    /\ candidate = [sha |-> 1, head |-> EmptyDigest, tail |-> EmptyDigest, size |-> 0]
    /\ existing_fingerprint = <<>>
    /\ kpc = "idle"
    /\ content_fingerprint = <<>>
    /\ similarity = NoSimilarity

\* content_fingerprint = self._create_content_fingerprint(file_content)
FingerprintCreate ==
    /\ kpc = "create"
    /\ content_fingerprint' = CreateContentFingerprint(candidate)
    /\ kpc' = "compare"
    /\ UNCHANGED <<candidate, existing_fingerprint, similarity>>
    /\ UNCHANGED <<chunkVars, store, dedupVars, mergeVars, fuseVars, facetVars,
                   procVars, fnVars, bgVars, rateVars, cbVars>>

\* similarity = self._compare_content_fingerprints(content_fingerprint, existing_fingerprint)
FingerprintCompare ==
    /\ kpc = "compare"
    /\ similarity' = CompareContentFingerprints(content_fingerprint, existing_fingerprint)
    /\ kpc' = "done"
    /\ UNCHANGED <<candidate, existing_fingerprint, content_fingerprint>>
    /\ UNCHANGED <<chunkVars, store, dedupVars, mergeVars, fuseVars, facetVars,
                   procVars, fnVars, bgVars, rateVars, cbVars>>

NextFingerprint == FingerprintCreate \/ FingerprintCompare

(***************************************************************************)
(* _normalize_filename and _calculate_filename_similarity.  Ratios are     *)
(* integers in ten-thousandths, rounded down.                              *)
(***************************************************************************)
Filenames ==
    {<<"a", "a", "a", "a", "-", "v", "1", ".", "p", "d", "f">>,
     <<"a", "a", "a", "a", "_", "1", ".", "p", "d", "f">>,
     <<"A", "a", "V", "1", ".", "P", "D", "F">>,
     <<"a", "a", "v", "2", ".", "p", "d", "f">>,
     <<"b", ".", "p", "d", "f">>,
     <<"a", "a", "a", "a", " ", "v", "1">>,
     <<"a", ".", "b", ".", "p", "d", "f">>,
     <<"a", "_", "_", "2">>}

Separators == {"-", "_"}
Digits == {"0", "1", "2", "3", "4", "5", "6", "7", "8", "9"}

\* str.lower on the letters the names use
LowerChar(c) ==
    CASE c = "A" -> "a" [] c = "V" -> "v" [] c = "P" -> "p" [] c = "D" -> "d"
      [] c = "F" -> "f" [] OTHER -> c

LowerText(t) == [i \in 1..Len(t) |-> LowerChar(t[i])]

\* name.rsplit('.', 1)[0] when '.' is in name
RSplitDot(t) ==
    LET dots == {i \in 1..Len(t) : t[i] = "."}
    IN IF dots = {} THEN t
       ELSE SubSeq(t, 1, (CHOOSE i \in dots : \A j \in dots : j <= i) - 1)

\* re.sub(r'[set]+', ' ', t): every run of characters of the set becomes one blank
RECURSIVE SubRuns(_, _)
SubRuns(t, set) ==
    IF t = <<>> THEN <<>>
    ELSE IF Head(t) \in set
         THEN IF Len(t) > 1 /\ t[2] \in set THEN SubRuns(Tail(t), set)
              ELSE <<" ">> \o SubRuns(Tail(t), set)
         ELSE <<Head(t)>> \o SubRuns(Tail(t), set)

NormalizeFilename(filename) ==
    Strip(SubRuns(SubRuns(RSplitDot(LowerText(filename)), Separators), Whitespace))

\* norm.split('.')[0]
FirstPart(t) ==
    LET dots == {i \in 1..Len(t) : t[i] = "."}
    IN IF dots = {} THEN t
       ELSE SubSeq(t, 1, (CHOOSE i \in dots : \A j \in dots : i <= j) - 1)

\* the length of the common run of a from i and b from j within the windows
RECURSIVE RunLen(_, _, _, _, _, _)
RunLen(a, b, i, j, ahi, bhi) ==
    IF i <= ahi /\ j <= bhi /\ a[i] = b[j] THEN 1 + RunLen(a, b, i + 1, j + 1, ahi, bhi)
    ELSE 0

\* SequenceMatcher.find_longest_match: the longest common block, the one that
\* starts earliest in a and, among those, earliest in b
FindLongestMatch(a, b, alo, ahi, blo, bhi) ==
    LET starts == (alo..ahi) \X (blo..bhi)
        size   == Max(0, CHOOSE k \in {RunLen(a, b, x[1], x[2], ahi, bhi) : x \in starts} :
                            \A x \in starts : RunLen(a, b, x[1], x[2], ahi, bhi) <= k)
        best   == {x \in starts : RunLen(a, b, x[1], x[2], ahi, bhi) = size}
        i      == CHOOSE i \in {x[1] : x \in best} : \A x \in best : i <= x[1]
        j      == CHOOSE j \in {x[2] : x \in {y \in best : y[1] = i}} :
                      \A x \in {y \in best : y[1] = i} : j <= x[2]
    IN [i |-> i, j |-> j, size |-> size]

\* SequenceMatcher.get_matching_blocks: the total size of the matching blocks
RECURSIVE MatchingChars(_, _, _, _, _, _)
MatchingChars(a, b, alo, ahi, blo, bhi) ==
    IF alo > ahi \/ blo > bhi THEN 0
    ELSE LET m == FindLongestMatch(a, b, alo, ahi, blo, bhi)
         IN IF m.size = 0 THEN 0
            ELSE m.size + MatchingChars(a, b, alo, m.i - 1, blo, m.j - 1)
                        + MatchingChars(a, b, m.i + m.size, ahi, m.j + m.size, bhi)

\* SequenceMatcher(None, a, b).ratio() = 2.0 * matches / (len(a) + len(b)), 1.0 for two empty texts
Ratio(a, b) ==
    IF Len(a) + Len(b) = 0 THEN 10000
    ELSE (2 * MatchingChars(a, b, 1, Len(a), 1, Len(b)) * 10000) \div (Len(a) + Len(b))

\* t from position p on matches [-_\s]*v?\d
RECURSIVE RestIsVersion(_, _)
RestIsVersion(t, p) ==
    IF p > Len(t) THEN FALSE
    ELSE IF t[p] \in Separators \cup Whitespace THEN RestIsVersion(t, p + 1)
    ELSE IF t[p] \in {"v", "V"} THEN p < Len(t) /\ t[p + 1] \in Digits
    ELSE t[p] \in Digits

\* re.match(r'(.+?)[-_\s]*v?\d+[-_\s]*(.*)$', t, re.IGNORECASE): whether it
\* matches, and group(1), the shortest non-empty prefix the rest can follow
VersionMatch(t) ==
    LET ends == {p \in 1..Len(t) : RestIsVersion(t, p + 1)}
    IN IF ends = {} THEN [matched |-> FALSE, group1 |-> <<>>]
       ELSE [matched |-> TRUE,
             group1  |-> SubSeq(t, 1, CHOOSE p \in ends : \A q \in ends : p <= q)]

\* the body of _calculate_filename_similarity after the normalization
BoostedSimilarity(n1, n2) ==
    LET basic == Ratio(n1, n2)
        m1    == VersionMatch(n1)
        m2    == VersionMatch(n2)
    IN IF FirstPart(n1) = FirstPart(n2) THEN 9500
       ELSE IF m1.matched /\ m2.matched /\ Ratio(m1.group1, m2.group1) > 8000
            THEN Min(9000, basic + 2000)
       ELSE basic

\* no ratio computed yet
NoRatio == -1

FilenameInit ==
    /\ name1 \in Filenames
    /\ name2 \in Filenames
    /\ npc = "normalize"
    /\ norm1 = <<>>
    /\ norm2 = <<>>
    /\ basic_similarity = NoRatio
    /\ filename_similarity = NoRatio

FilenameIdle ==
    /\ name1 = <<>>
    /\ name2 = <<>>
    /\ npc = "idle"
    /\ norm1 = <<>>
    /\ norm2 = <<>>
    /\ basic_similarity = NoRatio
    /\ filename_similarity = NoRatio

\* norm1 = self._normalize_filename(name1); norm2 = self._normalize_filename(name2)
FilenameNormalize ==
    /\ npc = "normalize"
    /\ norm1' = NormalizeFilename(name1)
    /\ norm2' = NormalizeFilename(name2)
    /\ npc' = "compare"
    /\ UNCHANGED <<name1, name2, basic_similarity, filename_similarity>>
    /\ UNCHANGED <<chunkVars, store, dedupVars, mergeVars, fuseVars, facetVars,
                   procVars, fpVars, bgVars, rateVars, cbVars>>

\* the basic ratio, the same-base rule and the version boost
FilenameCompare ==
    /\ npc = "compare"
    /\ basic_similarity' = Ratio(norm1, norm2)
    /\ filename_similarity' = BoostedSimilarity(norm1, norm2)
    /\ npc' = "done"
    /\ UNCHANGED <<name1, name2, norm1, norm2>>
    /\ UNCHANGED <<chunkVars, store, dedupVars, mergeVars, fuseVars, facetVars,
                   procVars, fpVars, bgVars, rateVars, cbVars>>

NextFilename == FilenameNormalize \/ FilenameCompare

(***************************************************************************)
(* upload_document and process_document_background                         *)
(***************************************************************************)
\* the row upload_document inserts
UploadedRow(h) == [NewRow(h) EXCEPT !.processing_status = "uploaded"]

\* insert_document: the table with the new row
InsertDocument(st, d, row) == (d :> row) @@ st

\* the frame of the upload and background steps
BackgroundFrame ==
    UNCHANGED <<chunkVars, dedupVars, mergeVars, fuseVars, facetVars,
                procVars, fpVars, fnVars, rateVars, cbVars>>

\* document d's task moves to position pos
Goto(d, pos) == bpc' = [bpc EXCEPT ![d] = pos]

BackgroundInit ==
    /\ bpc = [d \in DocIds |-> "new"]
    /\ temp_file = [d \in DocIds |-> FALSE]

\* no upload was made
BackgroundIdle ==
    /\ bpc = [d \in DocIds |-> "idle"]
    /\ temp_file = [d \in DocIds |-> FALSE]

\* upload_document: the temporary file is written, the row is inserted with
\* status uploaded and the background task is queued; when insert_document
\* raises, the file is removed and the upload is answered with 500
UploadDocument(d) ==
    /\ bpc[d] = "new"
    /\ \E ok \in BOOLEAN :
          IF ok
          THEN /\ store' = InsertDocument(store, d, UploadedRow(1))
               /\ temp_file' = [temp_file EXCEPT ![d] = TRUE]
               /\ Goto(d, "queued")
          ELSE /\ Goto(d, "rejected")
               /\ UNCHANGED <<store, temp_file>>
    /\ BackgroundFrame

\* await db_manager.update_document_status(document_id, "processing")
BackgroundSetProcessing(d) ==
    /\ bpc[d] = "queued"
    /\ \E ok \in BOOLEAN : store' = UpdateDocumentStatus(store, d, "processing", ok).table
    /\ Goto(d, "process_document")
    /\ UNCHANGED temp_file
    /\ BackgroundFrame

\* a call of the try block that either returns or raises into the except
\* branch: process_document, insert_chunks, process_chunks_for_embedding,
\* insert_embeddings
BackgroundCall(d, pos, next) ==
    /\ bpc[d] = pos
    /\ \E ok \in BOOLEAN : Goto(d, IF ok THEN next ELSE "except")
    /\ UNCHANGED <<store, temp_file>>
    /\ BackgroundFrame

BackgroundProcessDocument(d) == BackgroundCall(d, "process_document", "insert_chunks")

BackgroundInsertChunks(d) == BackgroundCall(d, "insert_chunks", "embed")

BackgroundEmbed(d) == BackgroundCall(d, "embed", "insert_embeddings")

BackgroundInsertEmbeddings(d) == BackgroundCall(d, "insert_embeddings", "set_completed")

\* await db_manager.update_document_status(document_id, "completed")
BackgroundSetCompleted(d) ==
    /\ bpc[d] = "set_completed"
    /\ \E ok \in BOOLEAN : store' = UpdateDocumentStatus(store, d, "completed", ok).table
    /\ Goto(d, "finally")
    /\ UNCHANGED temp_file
    /\ BackgroundFrame

\* except Exception: await db_manager.update_document_status(document_id, "failed")
BackgroundExcept(d) ==
    /\ bpc[d] = "except"
    /\ \E ok \in BOOLEAN : store' = UpdateDocumentStatus(store, d, "failed", ok).table
    /\ Goto(d, "finally")
    /\ UNCHANGED temp_file
    /\ BackgroundFrame

\* finally: the temporary file is removed
BackgroundFinally(d) ==
    /\ bpc[d] = "finally"
    /\ temp_file' = [temp_file EXCEPT ![d] = FALSE]
    /\ Goto(d, "done")
    /\ UNCHANGED store
    /\ BackgroundFrame

NextBackground ==
    \E d \in DocIds :
        \/ UploadDocument(d)
        \/ BackgroundSetProcessing(d)
        \/ BackgroundProcessDocument(d)
        \/ BackgroundInsertChunks(d)
        \/ BackgroundEmbed(d)
        \/ BackgroundInsertEmbeddings(d)
        \/ BackgroundSetCompleted(d)
        \/ BackgroundExcept(d)
        \/ BackgroundFinally(d)

(***************************************************************************)
(* SecurityMiddleware._check_rate_limit                                    *)
(***************************************************************************)
Clients == {"10.0.0.1", "10.0.0.2"}

\* rate_limit_requests and rate_limit_window of SecurityMiddleware.__init__
\* (100 and 3600 by default), and the bounds of the clock and of the requests
RateLimitRequests == 2
RateLimitWindow == 3
MaxRateTime == 6
MaxRequests == 6

\* SecurityMiddleware.__init__: the middleware has seen no request
RateIdle ==
    /\ current_time = 0
    /\ request_history = [c \in Clients |-> <<>>]
    /\ accepted = [c \in Clients |-> <<>>]
    /\ rejected = [c \in Clients |-> 0]

\* the while loop of _check_rate_limit: popleft while the oldest entry is
\* older than current_time - rate_limit_window
RECURSIVE CleanOld(_, _)
CleanOld(history, now) ==
    IF history # <<>> /\ Head(history) < now - RateLimitWindow
    THEN CleanOld(Tail(history), now)
    ELSE history

\* the limit test with > for >=
AboveLimit(history) == Len(history) > RateLimitRequests

\* len(self.request_history[client_ip]) >= self.rate_limit_requests
AtLimit(history) == Len(history) >= RateLimitRequests

RequestsSeen ==
    LET RECURSIVE Sum(_)
        Sum(cs) == IF cs = {} THEN 0
                   ELSE LET c == CHOOSE x \in cs : TRUE
                        IN Len(accepted[c]) + rejected[c] + Sum(cs \ {c})
    IN Sum(Clients)

\* time.time() advances between two requests
RateTick ==
    /\ \E d \in 1..2 :
         /\ current_time + d <= MaxRateTime
         /\ current_time' = current_time + d
    /\ UNCHANGED <<request_history, accepted, rejected>>
    /\ UNCHANGED <<chunkVars, store, dedupVars, mergeVars, fuseVars, facetVars,
                   procVars, fpVars, fnVars, bgVars, cbVars>>

\* _check_rate_limit for a request of client_ip, as dispatch calls it: the
\* request is rejected (429) or recorded and passed on
CheckRateLimit(client_ip) ==
    /\ RequestsSeen < MaxRequests
    /\ LET cleaned == CleanOld(request_history[client_ip], current_time)
       IN IF AtLimit(cleaned)
          THEN /\ request_history' = [request_history EXCEPT ![client_ip] = cleaned]
               /\ rejected' = [rejected EXCEPT ![client_ip] = @ + 1]
               /\ UNCHANGED accepted
          ELSE /\ request_history' =
                      [request_history EXCEPT ![client_ip] = Append(cleaned, current_time)]
               /\ accepted' = [accepted EXCEPT ![client_ip] = Append(@, current_time)]
               /\ UNCHANGED rejected
    /\ UNCHANGED current_time
    /\ UNCHANGED <<chunkVars, store, dedupVars, mergeVars, fuseVars, facetVars,
                   procVars, fpVars, fnVars, bgVars, cbVars>>

NextRate == RateTick \/ \E client_ip \in Clients : CheckRateLimit(client_ip)

(***************************************************************************)
(* DatabaseConnectionManager                                               *)
(***************************************************************************)
\* last_failure_time is None
NoTime == -1

\* max_failures, and failure_window in units of 100 seconds (300 seconds)
MaxFailures == 5
FailureWindow == 3
MaxBreakerTime == 12

\* DatabaseConnectionManager.__init__
BreakerIdle ==
    /\ cb_time = 0
    /\ connection_failures = 0
    /\ last_failure_time = NoTime
    /\ failure_log = <<>>

\* DatabaseConnectionManager.__init__ at a time.time() that is not 0
BreakerInit ==
    /\ cb_time = 1
    /\ connection_failures = 0
    /\ last_failure_time = NoTime
    /\ failure_log = <<>>

\* time.time() advances by 100 to 400 seconds
BreakerTick ==
    /\ \E d \in 1..4 :
         /\ cb_time + d <= MaxBreakerTime
         /\ cb_time' = cb_time + d
    /\ UNCHANGED <<connection_failures, last_failure_time, failure_log>>
    /\ UNCHANGED <<chunkVars, store, dedupVars, mergeVars, fuseVars, facetVars,
                   procVars, fpVars, fnVars, bgVars, rateVars>>

\* record_connection_failure
RecordConnectionFailure ==
    /\ Len(failure_log) < MaxBreakerTime
    /\ LET counted == IF /\ last_failure_time # NoTime
                         /\ last_failure_time # 0
                         /\ cb_time - last_failure_time > FailureWindow
                      THEN 0
                      ELSE connection_failures
       IN connection_failures' = counted + 1
    /\ last_failure_time' = cb_time
    /\ failure_log' = Append(failure_log, cb_time)
    /\ UNCHANGED cb_time
    /\ UNCHANGED <<chunkVars, store, dedupVars, mergeVars, fuseVars, facetVars,
                   procVars, fpVars, fnVars, bgVars, rateVars>>

\* should_circuit_break
ShouldCircuitBreak == connection_failures >= MaxFailures

\* reset_failures; failure_log keeps the failures recorded since the last call
ResetFailures ==
    /\ IF connection_failures > 0
       THEN /\ connection_failures' = 0
            /\ last_failure_time' = NoTime
       ELSE UNCHANGED <<connection_failures, last_failure_time>>
    /\ failure_log' = <<>>
    /\ UNCHANGED cb_time
    /\ UNCHANGED <<chunkVars, store, dedupVars, mergeVars, fuseVars, facetVars,
                   procVars, fpVars, fnVars, bgVars, rateVars>>

NextBreaker == BreakerTick \/ RecordConnectionFailure \/ ResetFailures

(***************************************************************************)
(* The specifications                                                      *)
(***************************************************************************)
ServiceIdle ==
    ProcessIdle /\ FingerprintIdle /\ FilenameIdle /\ BackgroundIdle /\ RateIdle /\ BreakerIdle

StoreIdle == store = [d \in DocIds |-> NewRow(1)]

InitChunk ==
    ChunkInit /\ StoreIdle /\ DedupIdle /\ MergeIdle /\ FuseIdle /\ FacetIdle /\ ServiceIdle
SpecChunk == InitChunk /\ [][NextChunk]_vars
\* chunk_text is one sequential call: a step that can be taken is taken
SpecChunkLive == SpecChunk /\ WF_vars(NextChunk)

InitDedup ==
    ChunkIdle /\ store \in Stores /\ DedupInit /\ MergeIdle /\ FuseIdle /\ FacetIdle /\ ServiceIdle
SpecDedup == InitDedup /\ [][NextDedup]_vars

InitMerge ==
    /\ ChunkIdle /\ DedupIdle /\ FuseIdle /\ FacetIdle /\ ServiceIdle
    /\ store = [d \in MergeDocIds |-> NewRow(d)]
    /\ MergeInit
SpecMerge == InitMerge /\ [][NextMerge]_vars

InitFuse ==
    ChunkIdle /\ StoreIdle /\ DedupIdle /\ MergeIdle /\ FuseInit /\ FacetIdle /\ ServiceIdle
SpecFuse == InitFuse /\ [][NextFuse]_vars

InitFacet ==
    ChunkIdle /\ StoreIdle /\ DedupIdle /\ MergeIdle /\ FuseIdle /\ FacetInit /\ ServiceIdle
SpecFacet == InitFacet /\ [][NextFacet]_vars

InitProcess ==
    /\ ProcessInit
    /\ text = <<>>
    /\ chunk_size \in ChunkSizes
    /\ chunk_overlap \in ChunkOverlaps
    /\ cpc = "idle"
    /\ sentences = <<>>
    /\ sidx = 1
    /\ current_chunk = <<>>
    /\ current_chunk_sentences = <<>>
    /\ carried = 0
    /\ chunks = <<>>
    /\ StoreIdle /\ DedupIdle /\ MergeIdle /\ FuseIdle /\ FacetIdle
    /\ FingerprintIdle /\ FilenameIdle /\ BackgroundIdle /\ RateIdle /\ BreakerIdle
SpecProcess == InitProcess /\ [][NextProcess]_vars

InitFingerprint ==
    /\ ChunkIdle /\ StoreIdle /\ DedupIdle /\ MergeIdle /\ FuseIdle /\ FacetIdle
    /\ ProcessIdle /\ FingerprintInit /\ FilenameIdle /\ BackgroundIdle /\ RateIdle /\ BreakerIdle
SpecFingerprint == InitFingerprint /\ [][NextFingerprint]_vars

InitFilename ==
    /\ ChunkIdle /\ StoreIdle /\ DedupIdle /\ MergeIdle /\ FuseIdle /\ FacetIdle
    /\ ProcessIdle /\ FingerprintIdle /\ FilenameInit /\ BackgroundIdle /\ RateIdle /\ BreakerIdle
SpecFilename == InitFilename /\ [][NextFilename]_vars

InitRate ==
    /\ ChunkIdle /\ StoreIdle /\ DedupIdle /\ MergeIdle /\ FuseIdle /\ FacetIdle
    /\ ProcessIdle /\ FingerprintIdle /\ FilenameIdle /\ BackgroundIdle /\ RateIdle /\ BreakerIdle
SpecRate == InitRate /\ [][NextRate]_vars

InitBreaker ==
    /\ ChunkIdle /\ StoreIdle /\ DedupIdle /\ MergeIdle /\ FuseIdle /\ FacetIdle
    /\ ProcessIdle /\ FingerprintIdle /\ FilenameIdle /\ BackgroundIdle /\ RateIdle /\ BreakerInit
SpecBreaker == InitBreaker /\ [][NextBreaker]_vars

\* the documents table is empty before the first upload
InitBackground ==
    /\ store = [d \in {} |-> NewRow(1)]
    /\ ChunkIdle /\ DedupIdle /\ MergeIdle /\ FuseIdle /\ FacetIdle
    /\ ProcessIdle /\ FingerprintIdle /\ FilenameIdle /\ BackgroundInit /\ RateIdle /\ BreakerIdle
SpecBackground == InitBackground /\ [][NextBackground]_vars

(***************************************************************************)
(* Claims about chunk_text                                                 *)
(***************************************************************************)
\* the sentences of chunk k that were not carried over from chunk k-1
FreshSentences(c) == SubSeq(c.sentences, c.carried + 1, Len(c.sentences))

AllFreshSentences == Flatten([k \in 1..Len(chunks) |-> FreshSentences(chunks[k])])

\* C2: every emitted chunk has char_count <= chunk_size, except a chunk made of
\* one single sentence that alone exceeds chunk_size.
C2_ChunkWithinSize ==
    \A k \in 1..Len(chunks) :
        \/ chunks[k].char_count <= chunk_size
        \/ /\ chunks[k].sentence_count = 1
           /\ Len(chunks[k].sentences[1]) > chunk_size

\* C3: when chunk_text returns, the chunks in index order, each without the
\* sentences carried over from its predecessor, are exactly the sentences of the
\* text in their order, and joined they are the text up to whitespace
\* normalization; the carried sentences of a chunk are the trailing sentences of
\* its predecessor and each chunk's content is its sentences joined by a blank.
C3_NoContentLost ==
    cpc = "done" =>
        /\ AllFreshSentences = SplitIntoSentences(text)
        /\ WsNorm(JoinSpace(AllFreshSentences)) = WsNorm(text)
        /\ \A k \in 1..Len(chunks) :
              /\ chunks[k].content = JoinSpace(chunks[k].sentences)
              /\ chunks[k].carried < Len(chunks[k].sentences)
              /\ IF k = 1 THEN chunks[k].carried = 0
                 ELSE SubSeq(chunks[k].sentences, 1, chunks[k].carried)
                        = SliceLast(chunks[k - 1].sentences, chunks[k].carried)

\* a finished run with a chunk that starts with a proper part of its predecessor
C3_Witness ==
    /\ cpc = "done"
    /\ \E k \in 2..Len(chunks) :
          /\ chunks[k].carried >= 1
          /\ chunks[k].carried < chunks[k - 1].sentence_count

\* C20: chunks are never split mid-sentence (a chunk's content is whole
\* sentences of the text joined by a blank), and a sentence longer than
\* chunk_size is a chunk of its own: the chunk that holds it holds no other
\* sentence, wherever the sentence stands in the text.
C20_LongSentenceOwnChunk ==
    \A k \in 1..Len(chunks) :
        /\ chunks[k].content = JoinSpace(chunks[k].sentences)
        /\ \A i \in 1..Len(chunks[k].sentences) :
              /\ \E n \in 1..Len(sentences) : sentences[n] = chunks[k].sentences[i]
              /\ Len(chunks[k].sentences[i]) > chunk_size => chunks[k].sentence_count = 1

\* C21: chunk_text terminates for every text and every configuration, also
\* when chunk_overlap >= chunk_size, and makes forward progress: n sentences
\* give at most n chunks, and every chunk after the first holds at least one
\* sentence (occurrence) that was not carried over from an earlier chunk.
C21_TerminatesWithProgress ==
    /\ <>(cpc = "done")
    /\ [](/\ Len(chunks) <= Len(sentences)
          /\ \A k \in 1..Len(chunks) :
                /\ chunks[k].sentence_count >= 1
                /\ chunks[k].carried < chunks[k].sentence_count)

\* a finished run with chunk_overlap >= chunk_size that emitted as many chunks
\* as the text has sentences, at least two
C21_Witness ==
    /\ cpc = "done"
    /\ chunk_overlap >= chunk_size
    /\ Len(sentences) >= 2
    /\ Len(chunks) = Len(sentences)

\* C22: whenever chunk_text closes a chunk, the number of its trailing
\* sentences carried over to seed the next chunk is at most half the closed
\* chunk's sentence count, also for a closed chunk of one sentence and for one
\* whose last sentence is longer than chunk_overlap.
C22_CarryAtMostHalf ==
    \A k \in 2..Len(chunks) :
        2 * chunks[k].carried <= chunks[k - 1].sentence_count

\* the later chunk begins with n >= 1 sentences that end the earlier chunk
SharesSentence(earlier, later) ==
    \E n \in 1..Min(Len(earlier.sentences), Len(later.sentences)) :
        SubSeq(later.sentences, 1, n)
          = SubSeq(earlier.sentences, Len(earlier.sentences) - n + 1, Len(earlier.sentences))

\* C23: for any two chunks of the same document with consecutive indices,
\* whenever chunk_overlap > 0 and the source had at least 2 sentences, the later
\* chunk begins with at least one sentence that ends the earlier chunk.
C23_ConsecutiveChunksOverlap ==
    (ppc = "done" /\ chunk_overlap > 0 /\ Len(SplitIntoSentences(FullText(pages))) >= 2) =>
        \A k \in 2..Len(all_chunks) :
            /\ all_chunks[k].chunk_index = all_chunks[k - 1].chunk_index + 1
            /\ SharesSentence(all_chunks[k - 1], all_chunks[k])

(***************************************************************************)
(* Claims about fingerprints and filename similarity                       *)
(***************************************************************************)
\* C28: the version-variant boost of filename similarity never lowers the
\* score: for every pair of names to which the same-base rule does not apply,
\* _calculate_filename_similarity returns at least the basic character-level
\* ratio of the normalized names, also when both names match the version
\* pattern and the basic ratio is already above 0.9.
C28_VersionBoostNeverLowers ==
    (npc = "done" /\ FirstPart(norm1) # FirstPart(norm2)) =>
        filename_similarity >= basic_similarity

(***************************************************************************)
(* Claims about the rate limiter and the circuit breaker                   *)
(***************************************************************************)
\* the requests of a client accepted in the rate_limit_window seconds up to t
AcceptedWithin(c, t) ==
    {k \in DOMAIN accepted[c] :
        accepted[c][k] >= t - RateLimitWindow /\ accepted[c][k] <= t}

\* h is what is left of s after some of its first elements are dropped
IsSuffix(h, s) ==
    Len(h) <= Len(s) /\ h = SubSeq(s, Len(s) - Len(h) + 1, Len(s))

\* C29: for every client IP and every instant, the requests accepted by
\* _check_rate_limit within the last rate_limit_window seconds are at most
\* rate_limit_requests, whatever the interleaving of the clients' requests;
\* a rejected request is not recorded: the history of a client holds accepted
\* requests only, the latest ones.
C29_RateLimitHolds ==
    \A c \in Clients :
        /\ \A t \in 0..current_time :
               Cardinality(AcceptedWithin(c, t)) <= RateLimitRequests
        /\ IsSuffix(request_history[c], accepted[c])

\* C29 witness: a client at its limit has had a request rejected and, later,
\* after old entries were dropped, one accepted again, while the other client
\* was served in between.
C29_Witness ==
    \E c \in Clients, o \in Clients :
        /\ o # c
        /\ rejected[c] > 0
        /\ Len(accepted[c]) > RateLimitRequests
        /\ Len(request_history[c]) = RateLimitRequests
        /\ accepted[o] # <<>>

\* the failures of the log recorded in the failure_window starting at t
FailuresWithin(t) ==
    {k \in DOMAIN failure_log : failure_log[k] >= t /\ failure_log[k] <= t + FailureWindow}

\* C30: should_circuit_break is true only if at least max_failures of the
\* failures recorded since the last reset_failures lie within one
\* failure_window; failures spread over a longer time do not trip it.
C30_TripsOnlyWithinWindow ==
    ShouldCircuitBreak =>
        \E t \in 0..MaxBreakerTime : Cardinality(FailuresWithin(t)) >= MaxFailures

(***************************************************************************)
(* Claims about process_document_background                                *)
(***************************************************************************)
\* C27: every run of process_document_background ends with the document's
\* stored processing status being completed or failed, never left at uploaded
\* or processing, also when a storage call (chunk insert, embedding insert or
\* the status update itself) fails during the run.
C27_BackgroundEndsCompletedOrFailed ==
    \A d \in DocIds :
        bpc[d] = "done" => store[d].processing_status \in {"completed", "failed"}

(***************************************************************************)
(* Claims about check_for_duplicates                                       *)
(***************************************************************************)
AllMethods == {"exact_content", "filename", "content_hash", "semantic"}

\* the candidate's exact hash equals a stored exact hash
ExactHashStored == \E d \in DOMAIN store : store[d].content_hash = Sha256(file_content)

\* the decision of the exact-content short circuit, no other method having run
ExactDecision ==
    /\ dresult.is_duplicate
    /\ dresult.confidence = 100
    /\ dresult.duplicate_type = "exact_content"
    /\ dresult.action = "skip"
    /\ dresult.error = FALSE
    /\ filename_matches = <<>> /\ content_matches = <<>> /\ semantic_matches = <<>>
    /\ failed \cap {"filename", "content_hash", "semantic"} = {}

Candidates == Range(filename_matches) \cup Range(content_matches) \cup Range(semantic_matches)

SetMax(S) == CHOOSE x \in S : \A y \in S : y <= x

\* the decision is the one the maximum score over all candidates gives
DecisionFollowsScores ==
    LET scores == {m.similarity_score : m \in Candidates}
    IN IF scores = {} \/ SetMax(scores) < 85
       THEN dresult.action = "proceed" /\ ~dresult.is_duplicate
       ELSE LET s == SetMax(scores)
            IN /\ dresult.is_duplicate
               /\ dresult.confidence = s
               /\ \E m \in Candidates : /\ m.similarity_score = s
                                        /\ m.match_type = dresult.duplicate_type
                                        /\ m = dresult.existing_document
               /\ dresult.action =
                      IF s >= 95 THEN "skip"
                      ELSE IF s >= 90
                           THEN IF dresult.duplicate_type = "semantic" THEN "merge"
                                ELSE "replace"
                      ELSE "review"

\* the exact-content lookup found a document and check_for_duplicates returned there
ExactShortCircuit == ExactHashStored /\ "exact_content" \notin failed

\* C7: without an exact-hash match the decision follows from the consolidated
\* maximum score s alone: s >= 0.95 skip; 0.90 <= s < 0.95 merge when the best
\* candidate is semantic, else replace; 0.85 <= s < 0.90 review, in these cases
\* is_duplicate and confidence = s; s < 0.85 or no candidate: proceed, not a
\* duplicate.
C7_ActionFromMaxScore ==
    (dpc = "done" /\ ~ExactShortCircuit) => DecisionFollowsScores

C7_Witness ==
    /\ dpc = "done"
    /\ ~ExactShortCircuit
    /\ dresult.action = "merge"
    /\ dresult.confidence = 90
    /\ \E m \in Candidates : m.match_type # "semantic" /\ m.similarity_score = 80

\* C8: a failing collaborator call of a detection method never aborts the
\* classification: a decision is returned (not the error result), a failed method
\* contributes no candidates, the decision is the one the candidates of the other
\* methods give, and when every method fails it is proceed, not a duplicate.
C8_FailureDegradesMethod ==
    dpc = "done" =>
        /\ dresult.error = FALSE
        /\ "filename" \in failed => filename_matches = <<>>
        /\ "content_hash" \in failed => content_matches = <<>>
        /\ "semantic" \in failed => semantic_matches = <<>>
        /\ "exact_content" \in failed => DecisionFollowsScores
        /\ failed = AllMethods => (dresult.action = "proceed" /\ ~dresult.is_duplicate)

\* one method failed and another one's candidate made the decision
C8_Witness ==
    /\ dpc = "done"
    /\ "filename" \in failed
    /\ "exact_content" \in failed
    /\ dresult.is_duplicate
    /\ dresult.duplicate_type = "content_hash"

\* check_for_duplicates decided on the consolidated candidates
ConsolidatedDuplicate == dpc = "done" /\ ~ExactShortCircuit /\ dresult.is_duplicate

\* the highest score a detection method gave document d
BestScoreOf(d) == SetMax({m.similarity_score : m \in {c \in Candidates : c.id = d}})

CandidateIds == {m.id : m \in Candidates}

\* the scores the detection methods produced for document d: its filename and
\* structural candidates and every chunk of d the vector search answered
ProducedScores(d) ==
    {m.similarity_score : m \in {c \in Range(filename_matches) \cup Range(content_matches) : c.id = d}}
        \cup (IF "semantic" \in failed THEN {}
              ELSE {h.similarity_score : h \in {x \in Range(semantic_hits) : x.document_id = d}})

\* C24: consolidation yields at most one candidate per existing document id,
\* and that candidate's score is the highest score any detection method
\* produced for that document (for the semantic method, the highest score among
\* that document's matching chunks).
C24_ConsolidatedMaxPerDocument ==
    (dpc = "done" /\ ~ExactShortCircuit /\ ~dresult.error) =>
        LET all_matches == ConsolidateMatches(filename_matches, content_matches,
                                              semantic_matches)
        IN /\ \A i, j \in 1..Len(all_matches) :
                 all_matches[i].id = all_matches[j].id => i = j
           /\ \A i \in 1..Len(all_matches) :
                 all_matches[i].similarity_score = SetMax(ProducedScores(all_matches[i].id))

\* C25: fingerprint creation and comparison never raise: for empty content
\* (byte length 0) and for a malformed stored fingerprint the comparison returns
\* the neutral, non-matching similarity 0.0.
C25_FingerprintNeverRaises ==
    kpc = "done" =>
        /\ ~similarity.raised
        /\ (candidate.size = 0 \/ existing_fingerprint \in MalformedFingerprints)
              => similarity.val = 0

\* C16: when the consolidated maximum is >= 0.85, similar_documents holds the
\* (at most) 5 highest-scoring consolidated candidates, one per document, in
\* descending score order, so its first entry is the best candidate reported
\* as existing_document.
C16_SimilarTopFiveDescending ==
    ConsolidatedDuplicate =>
        LET similar == dresult.similar_documents
        IN /\ Len(similar) = Min(5, Cardinality(CandidateIds))
           /\ \A i \in 1..Len(similar) :
                 similar[i].similarity_score = BestScoreOf(similar[i].id)
           /\ \A i \in 1..Len(similar), j \in 1..Len(similar) :
                 i < j => similar[i].similarity_score >= similar[j].similarity_score
           /\ similar[1] = dresult.existing_document

\* exact_content > structural (content_hash) > semantic > filename
TypeRank(type) ==
    CASE type = "exact_content" -> 4
      [] type = "content_hash"  -> 3
      [] type = "semantic"      -> 2
      [] OTHER                  -> 1

\* C17: of candidates with equal similarity scores, the one kept for a
\* document and the one chosen as best is the one whose match type ranks
\* higher in exact_content > content_hash > semantic > filename.
C17_TieBreakByMatchType ==
    ConsolidatedDuplicate =>
        /\ \A m \in Candidates :
              m.similarity_score = dresult.existing_document.similarity_score
              => TypeRank(m.match_type) <= TypeRank(dresult.existing_document.match_type)
        /\ \A i \in 1..Len(dresult.similar_documents) : \A m \in Candidates :
              LET kept == dresult.similar_documents[i]
              IN (m.id = kept.id /\ m.similarity_score = kept.similarity_score)
                 => TypeRank(m.match_type) <= TypeRank(kept.match_type)

(***************************************************************************)
(* Claims about the merge                                                  *)
(***************************************************************************)
SecondaryIds == Range(secondary_doc_ids)

\* document d is marked as merged into the primary
MarkedMerged(d) ==
    /\ d \in DOMAIN store
    /\ store[d].processing_status = "merged"
    /\ store[d].merged_into = primary_doc_id

\* C4: the merge is all-or-nothing: when it has ended, successfully or not,
\* either every secondary document has status merged and merged_into = primary,
\* or no secondary document has been changed.
C4_MergeAllOrNothing ==
    mpc = "done" =>
        \/ \A d \in SecondaryIds : MarkedMerged(d)
        \/ \A d \in SecondaryIds \cap DOMAIN store : store[d] = store0[d]

\* C5: the merge fails, success = false and no document changed, whenever the
\* primary id or one of the secondary ids cannot be resolved by get-by-id.
C5_UnresolvedIdFails ==
    (/\ mpc = "done"
     /\ \/ primary_doc_id \notin DOMAIN store0
        \/ \E d \in SecondaryIds : d \notin DOMAIN store0)
        => (~mresult.success /\ store = store0)

\* C6: the merge deletes no document, and after a successful merge every
\* secondary document still exists with status merged and merged_into = primary,
\* and the primary's metadata holds merged_from = the secondary ids and a merge
\* timestamp.
C6_MergeKeepsLineage ==
    /\ DOMAIN store = DOMAIN store0
    /\ (mpc = "done" /\ mresult.success) =>
          /\ \A d \in SecondaryIds : MarkedMerged(d)
          /\ primary_doc_id \in DOMAIN store
          /\ store[primary_doc_id].merged_from = secondary_doc_ids
          /\ store[primary_doc_id].merge_date = Now

\* C26: after any successful merge the primary document is not itself marked
\* as merged: its status is not merged and it has no merged_into reference,
\* for every list of secondary ids, also one that contains the primary id.
C26_PrimaryNotMerged ==
    (mpc = "done" /\ mresult.success /\ primary_doc_id \in DOMAIN store) =>
        /\ store[primary_doc_id].processing_status # "merged"
        /\ store[primary_doc_id].merged_into = Absent

(***************************************************************************)
(* Claims about the fusion                                                 *)
(***************************************************************************)
ReturnedBy(results, rec) ==
    \E i \in 1..Len(results) : GetResultKey(results[i]) = GetResultKey(rec)

\* C9: every fused hit's score is 0.7 x semantic + 0.3 x keyword, multiplied by
\* 1.1 exactly when the hit was returned by both the semantic and the keyword
\* method (ten-thousandths: the factors are 11 and 10).
C9_FusedScore ==
    fpc = "done" =>
        \A i \in 1..Len(ranked_results) :
            LET rec == ranked_results[i]
                combined == rec.semantic_score * 7 + rec.keyword_score * 3
            IN rec.similarity_score =
                  IF ReturnedBy(semantic_results, rec) /\ ReturnedBy(keyword_results, rec)
                  THEN combined * 11 ELSE combined * 10

\* a comes before b in the order: fused score descending, then raw semantic
\* score descending, then chunk id ascending
RankedBefore(a, b) ==
    \/ a.similarity_score > b.similarity_score
    \/ /\ a.similarity_score = b.similarity_score
       /\ \/ a.semantic_score > b.semantic_score
          \/ /\ a.semantic_score = b.semantic_score
             /\ a.chunk_id <= b.chunk_id

\* C10: the reranked list is ordered by descending fused score, ties by
\* descending raw semantic score, then by ascending chunk id.
C10_RerankOrder ==
    fpc = "done" =>
        \A i \in 1..Len(ranked_results), j \in 1..Len(ranked_results) :
            i < j => RankedBefore(ranked_results[i], ranked_results[j])

\* C11: hybrid search truncates only after fusion and rerank: each search
\* method is asked for at least as many hits as the caller requested, so no
\* per-method result set enters the fusion cut below the requested count.
C11_NoTruncationBeforeFusion ==
    fpc \in {"fuse", "done"} =>
        /\ semantic_limit >= max_results
        /\ keyword_limit >= max_results

SemanticOnly(rec) ==
    ReturnedBy(semantic_results, rec) /\ ~ReturnedBy(keyword_results, rec)

InBothLists(rec) ==
    ReturnedBy(semantic_results, rec) /\ ReturnedBy(keyword_results, rec)

\* C12 as stated: in the reranked list a hit present only in the semantic
\* hits is never placed before a hit of equal semantic score that is present
\* in both the semantic and the keyword hits.
C12_SemanticOnlyNeverOutranks ==
    fpc = "done" =>
        \A i \in 1..Len(ranked_results), j \in 1..Len(ranked_results) :
            (/\ i < j
             /\ SemanticOnly(ranked_results[i])
             /\ InBothLists(ranked_results[j]))
            => ranked_results[i].semantic_score # ranked_results[j].semantic_score

\* C12 amended: a hit present only in the semantic hits is never placed
\* before a hit of equal semantic score present in both lists when that
\* semantic score is greater than 0.
C12_PositiveSemanticOnlyNeverOutranks ==
    fpc = "done" =>
        \A i \in 1..Len(ranked_results), j \in 1..Len(ranked_results) :
            (/\ i < j
             /\ SemanticOnly(ranked_results[i])
             /\ InBothLists(ranked_results[j])
             /\ ranked_results[i].semantic_score > 0)
            => ranked_results[i].semantic_score # ranked_results[j].semantic_score

\* a semantic-only hit and a hit of both lists with the same positive
\* semantic score were ranked, the hit of both lists first
C12_Witness ==
    /\ fpc = "done"
    /\ \E i \in 1..Len(ranked_results), j \in 1..Len(ranked_results) :
          /\ i < j
          /\ InBothLists(ranked_results[i])
          /\ SemanticOnly(ranked_results[j])
          /\ ranked_results[i].semantic_score = ranked_results[j].semantic_score
          /\ ranked_results[i].semantic_score > 0
          /\ ranked_results[i].keyword_score = 0

\* the lists that hold the elements of s in some order
Perms(s) ==
    {[i \in 1..Len(s) |-> s[f[i]]] :
        f \in {g \in [1..Len(s) -> 1..Len(s)] :
                  \A a, b \in 1..Len(s) : g[a] = g[b] => a = b}}

\* the fused records as a set: identity and per-method scores
FusedSet(merged) ==
    {[key |-> GetResultKey(merged[i]),
      semantic_score |-> merged[i].semantic_score,
      keyword_score |-> merged[i].keyword_score] : i \in 1..Len(merged)}

\* C13: the set of fused records, one per identity with its per-method
\* scores, does not depend on the order in which the hits are listed in
\* the semantic and the keyword input.
C13_FusionOrderIndependent ==
    fpc = "done" =>
        \A sem \in Perms(semantic_results), kw \in Perms(keyword_results) :
            FusedSet(MergeSearchResults(sem, kw)) = FusedSet(combined_results)

(***************************************************************************)
(* Claims about the facets                                                 *)
(***************************************************************************)
\* C14: _generate_facets returns a facet mapping without raising for every
\* result list, also one with a result whose page number is None.
C14_FacetsTotal ==
    /\ gpc \in {"refine", "done"} => ~base_facets.raised
    /\ gpc = "done" => ~updated_facets.raised

Position(order, value) == CHOOSE k \in 1..Len(order) : order[k] = value

\* the confidence_level facet of the list maps scores by 0.8 and 0.6 and
\* lists its buckets in severity order
SeverityOrdered(facet, results) ==
    /\ \A k \in 1..Len(facet) :
          /\ facet[k].value \in Range(SeverityOrder)
          /\ facet[k].count =
                Cardinality({i \in 1..Len(results) :
                    LET score == results[i].similarity_score
                    IN CASE facet[k].value = "high"   -> score >= 80
                         [] facet[k].value = "medium" -> score >= 60 /\ score < 80
                         [] OTHER                     -> score < 60})
          /\ facet[k].count > 0
    /\ \A i \in 1..Len(facet), j \in 1..Len(facet) :
          i < j => Position(SeverityOrder, facet[i].value)
                      < Position(SeverityOrder, facet[j].value)

\* C18: the confidence_level facet maps score >= 0.8 to high, score >= 0.6
\* to medium and anything lower to low, and lists its buckets in the fixed
\* severity order high, medium, low, not alphabetically.
C18_ConfidenceSeverityOrder ==
    /\ (gpc \in {"refine", "done"} /\ ~base_facets.raised)
          => SeverityOrdered(base_facets.facets.confidence_level, fresults)
    /\ (gpc = "done" /\ ~updated_facets.raised)
          => SeverityOrdered(updated_facets.facets.confidence_level, filtered_results)

RECURSIVE SumCounts(_)
SumCounts(facet) == IF facet = <<>> THEN 0 ELSE Head(facet).count + SumCounts(Tail(facet))

AllBuckets(f) ==
    f.document_type \o f.confidence_level \o f.page_range \o f.content_category

\* the most buckets one result can count in: one document type, one
\* confidence level, one page range and every content category
MaxBucketsPerResult == 3 + Cardinality(Categories)

CountsBounded(f, results) ==
    /\ \A k \in 1..Len(AllBuckets(f)) : AllBuckets(f)[k].count <= Len(results)
    /\ SumCounts(AllBuckets(f)) <= Len(results) * MaxBucketsPerResult

====
